---------------------------- MODULE Spec2Model ----------------------------
(***************************************************************************)
(* contrib-checker: contributors found in the git history are reconciled   *)
(* against the contributors declared in CITATION.cff and codemeta.json.    *)
(*                                                                         *)
(* A Python string is modelled as a sequence of one-character strings, so  *)
(* that the regular expressions, split/join, strip, lower and substring    *)
(* tests of the code are computed character by character.                  *)
(***************************************************************************)
EXTENDS Naturals, Integers, Sequences, FiniteSets, TLC

(***************************************************************************)
(* Bounds of the model                                                     *)
(***************************************************************************)
\* longest input string given to normalize_contributor_name in SpecNorm
MaxLen == 6
\* largest set of actual, and of declared, identities given to
\* find_missing_contributors in SpecMissing
MaxIds == 2
\* largest number of lines of a git log output in SpecCollect
MaxLines == 2
\* largest number of entries of a list in a metadata file in SpecParse
MaxRecords == 2
\* largest number of lines of the git log output of an entry-point run (Spec)
MaxLog == 2
\* largest number of missing identities rendered into a comment body (SpecComment)
MaxMissing == 3

(***************************************************************************)
(* Characters and the string primitives of Python used by the code         *)
(***************************************************************************)
\* Python's None; also the value of a result that has not been computed yet
None == <<"None">>

\* the characters of the strings enumerated in SpecNorm
NormAlphabet == {"a", "A", " ", "<", ">"}

\* the characters for which str.isspace() is true; a character that cannot be
\* written in a string of this module is named by its code point
Whitespace ==
    {" ", "\t", "\n", "\r", "\f", "U+000B", "U+001C", "U+001D", "U+001E", "U+001F",
     "U+0085", "U+00A0", "U+1680", "U+2000", "U+2001", "U+2002", "U+2003",
     "U+2004", "U+2005", "U+2006", "U+2007", "U+2008", "U+2009", "U+200A",
     "U+2028", "U+2029", "U+202F", "U+205F", "U+3000"}

\* str.isspace() on one character (str.split() and str.strip() with no argument)
IsSpace(c) == c \in Whitespace

\* the printable ASCII characters in code point order, from 32 (space); the
\* double quote, the backslash and the backtick are written U+0022, U+005C
\* and U+0060. Every character outside this list other than "\t", "\n",
\* "\f" and "\r" is named "U+" followed by its code point in at least four
\* upper-case hexadecimal digits
AsciiPrintable ==
    <<" ", "!", "U+0022", "#", "$", "%", "&", "'", "(", ")", "*", "+", ",", "-",
      ".", "/", "0", "1", "2", "3", "4", "5", "6", "7", "8", "9", ":", ";",
      "<", "=", ">", "?", "@", "A", "B", "C", "D", "E", "F", "G", "H", "I",
      "J", "K", "L", "M", "N", "O", "P", "Q", "R", "S", "T", "U", "V", "W",
      "X", "Y", "Z", "[", "U+005C", "]", "^", "_", "U+0060", "a", "b", "c", "d", "e",
      "f", "g", "h", "i", "j", "k", "l", "m", "n", "o", "p", "q", "r", "s",
      "t", "u", "v", "w", "x", "y", "z", "{", "|", "}", "~">>

AsciiChars == {AsciiPrintable[i] : i \in 1..Len(AsciiPrintable)}

\* seq.index(x) + 1
IndexOf(seq, x) == CHOOSE i \in 1..Len(seq) : seq[i] = x

HexDigits ==
    <<"0", "1", "2", "3", "4", "5", "6", "7", "8", "9", "A", "B", "C", "D", "E", "F">>
LowerHexDigits ==
    <<"0", "1", "2", "3", "4", "5", "6", "7", "8", "9", "a", "b", "c", "d", "e", "f">>

\* the number written by the hexadecimal digits h
RECURSIVE HexNumber(_)
HexNumber(h) ==
    IF Len(h) = 0 THEN 0
    ELSE 16 * HexNumber(SubSeq(h, 1, Len(h) - 1))
         + IndexOf(HexDigits, SubSeq(h, Len(h), Len(h))) - 1

\* n in at least width hexadecimal digits, as the text of a character name
RECURSIVE HexName(_, _)
HexName(n, width) ==
    IF width <= 0 /\ n = 0 THEN ""
    ELSE HexName(n \div 16, width - 1) \o HexDigits[(n % 16) + 1]

\* n in exactly width lower-case hexadecimal digits, as a Python string
RECURSIVE HexLower(_, _)
HexLower(n, width) ==
    IF width = 0 THEN << >>
    ELSE HexLower(n \div 16, width - 1) \o <<LowerHexDigits[(n % 16) + 1]>>

\* ord(c)
CodePoint(c) ==
    IF c = "\t" THEN 9
    ELSE IF c = "\n" THEN 10
    ELSE IF c = "\f" THEN 12
    ELSE IF c = "\r" THEN 13
    ELSE IF Len(c) > 1 THEN HexNumber(SubSeq(c, 3, Len(c)))
    ELSE 31 + IndexOf(AsciiPrintable, c)

\* chr(n)
CharOf(n) ==
    IF n \in 32..126 THEN AsciiPrintable[n - 31]
    ELSE IF n = 9 THEN "\t"
    ELSE IF n = 10 THEN "\n"
    ELSE IF n = 12 THEN "\f"
    ELSE IF n = 13 THEN "\r"
    ELSE "U+" \o HexName(n, 4)

\* n lies in one of the ranges <<first, last>>
InRanges(ranges, n) ==
    \E i \in 1..Len(ranges) : ranges[i][1] <= n /\ n <= ranges[i][2]

\* the table written as entries "first-last ", each code point in six
\* hexadecimal digits: the sequence of the ranges <<first, last>>
Ranges(table) ==
    [i \in 1..(Len(table) \div 14) |->
        [k \in 1..2 |-> HexNumber(SubSeq(table, 14 * i + 7 * k - 20, 14 * i + 7 * k - 15))]]

\* the table written as entries "first-last/step>target ": the sequence of
\* the tuples <<first, last, step, target>>
Mappings(table) ==
    [i \in 1..(Len(table) \div 23) |->
        [k \in 1..4 |->
            HexNumber(SubSeq(table, 23 * (i - 1) + <<1, 8, 15, 17>>[k],
                                    23 * (i - 1) + <<6, 13, 15, 22>>[k]))]]

\* str.lower() on the characters it maps to one other character (Unicode
\* 14.0.0, the database of the interpreter): first, first + step, ..., last
\* are mapped to target, target + step, ...
LowerRanges ==
    Mappings("000041-00005A/1>000061 0000C0-0000D6/1>0000E0 0000D8-0000DE/1>0000F8 000100-00012E/2>000101 "
      \o "000132-000136/2>000133 000139-000147/2>00013A 00014A-000176/2>00014B 000178-000178/1>0000FF "
      \o "000179-00017D/2>00017A 000181-000181/1>000253 000182-000184/2>000183 000186-000186/1>000254 "
      \o "000187-000187/1>000188 000189-00018A/1>000256 00018B-00018B/1>00018C 00018E-00018E/1>0001DD "
      \o "00018F-00018F/1>000259 000190-000190/1>00025B 000191-000191/1>000192 000193-000193/1>000260 "
      \o "000194-000194/1>000263 000196-000196/1>000269 000197-000197/1>000268 000198-000198/1>000199 "
      \o "00019C-00019C/1>00026F 00019D-00019D/1>000272 00019F-00019F/1>000275 0001A0-0001A4/2>0001A1 "
      \o "0001A6-0001A6/1>000280 0001A7-0001A7/1>0001A8 0001A9-0001A9/1>000283 0001AC-0001AC/1>0001AD "
      \o "0001AE-0001AE/1>000288 0001AF-0001AF/1>0001B0 0001B1-0001B2/1>00028A 0001B3-0001B5/2>0001B4 "
      \o "0001B7-0001B7/1>000292 0001B8-0001B8/1>0001B9 0001BC-0001BC/1>0001BD 0001C4-0001C4/1>0001C6 "
      \o "0001C5-0001C5/1>0001C6 0001C7-0001C7/1>0001C9 0001C8-0001C8/1>0001C9 0001CA-0001CA/1>0001CC "
      \o "0001CB-0001DB/2>0001CC 0001DE-0001EE/2>0001DF 0001F1-0001F1/1>0001F3 0001F2-0001F4/2>0001F3 "
      \o "0001F6-0001F6/1>000195 0001F7-0001F7/1>0001BF 0001F8-00021E/2>0001F9 000220-000220/1>00019E "
      \o "000222-000232/2>000223 00023A-00023A/1>002C65 00023B-00023B/1>00023C 00023D-00023D/1>00019A "
      \o "00023E-00023E/1>002C66 000241-000241/1>000242 000243-000243/1>000180 000244-000244/1>000289 "
      \o "000245-000245/1>00028C 000246-00024E/2>000247 000370-000372/2>000371 000376-000376/1>000377 "
      \o "00037F-00037F/1>0003F3 000386-000386/1>0003AC 000388-00038A/1>0003AD 00038C-00038C/1>0003CC "
      \o "00038E-00038F/1>0003CD 000391-0003A1/1>0003B1 0003A3-0003AB/1>0003C3 0003CF-0003CF/1>0003D7 "
      \o "0003D8-0003EE/2>0003D9 0003F4-0003F4/1>0003B8 0003F7-0003F7/1>0003F8 0003F9-0003F9/1>0003F2 "
      \o "0003FA-0003FA/1>0003FB 0003FD-0003FF/1>00037B 000400-00040F/1>000450 000410-00042F/1>000430 "
      \o "000460-000480/2>000461 00048A-0004BE/2>00048B 0004C0-0004C0/1>0004CF 0004C1-0004CD/2>0004C2 "
      \o "0004D0-00052E/2>0004D1 000531-000556/1>000561 0010A0-0010C5/1>002D00 0010C7-0010C7/1>002D27 "
      \o "0010CD-0010CD/1>002D2D 0013A0-0013EF/1>00AB70 0013F0-0013F5/1>0013F8 001C90-001CBA/1>0010D0 "
      \o "001CBD-001CBF/1>0010FD 001E00-001E94/2>001E01 001E9E-001E9E/1>0000DF 001EA0-001EFE/2>001EA1 "
      \o "001F08-001F0F/1>001F00 001F18-001F1D/1>001F10 001F28-001F2F/1>001F20 001F38-001F3F/1>001F30 "
      \o "001F48-001F4D/1>001F40 001F59-001F5F/2>001F51 001F68-001F6F/1>001F60 001F88-001F8F/1>001F80 "
      \o "001F98-001F9F/1>001F90 001FA8-001FAF/1>001FA0 001FB8-001FB9/1>001FB0 001FBA-001FBB/1>001F70 "
      \o "001FBC-001FBC/1>001FB3 001FC8-001FCB/1>001F72 001FCC-001FCC/1>001FC3 001FD8-001FD9/1>001FD0 "
      \o "001FDA-001FDB/1>001F76 001FE8-001FE9/1>001FE0 001FEA-001FEB/1>001F7A 001FEC-001FEC/1>001FE5 "
      \o "001FF8-001FF9/1>001F78 001FFA-001FFB/1>001F7C 001FFC-001FFC/1>001FF3 002126-002126/1>0003C9 "
      \o "00212A-00212A/1>00006B 00212B-00212B/1>0000E5 002132-002132/1>00214E 002160-00216F/1>002170 "
      \o "002183-002183/1>002184 0024B6-0024CF/1>0024D0 002C00-002C2F/1>002C30 002C60-002C60/1>002C61 "
      \o "002C62-002C62/1>00026B 002C63-002C63/1>001D7D 002C64-002C64/1>00027D 002C67-002C6B/2>002C68 "
      \o "002C6D-002C6D/1>000251 002C6E-002C6E/1>000271 002C6F-002C6F/1>000250 002C70-002C70/1>000252 "
      \o "002C72-002C72/1>002C73 002C75-002C75/1>002C76 002C7E-002C7F/1>00023F 002C80-002CE2/2>002C81 "
      \o "002CEB-002CED/2>002CEC 002CF2-002CF2/1>002CF3 00A640-00A66C/2>00A641 00A680-00A69A/2>00A681 "
      \o "00A722-00A72E/2>00A723 00A732-00A76E/2>00A733 00A779-00A77B/2>00A77A 00A77D-00A77D/1>001D79 "
      \o "00A77E-00A786/2>00A77F 00A78B-00A78B/1>00A78C 00A78D-00A78D/1>000265 00A790-00A792/2>00A791 "
      \o "00A796-00A7A8/2>00A797 00A7AA-00A7AA/1>000266 00A7AB-00A7AB/1>00025C 00A7AC-00A7AC/1>000261 "
      \o "00A7AD-00A7AD/1>00026C 00A7AE-00A7AE/1>00026A 00A7B0-00A7B0/1>00029E 00A7B1-00A7B1/1>000287 "
      \o "00A7B2-00A7B2/1>00029D 00A7B3-00A7B3/1>00AB53 00A7B4-00A7C2/2>00A7B5 00A7C4-00A7C4/1>00A794 "
      \o "00A7C5-00A7C5/1>000282 00A7C6-00A7C6/1>001D8E 00A7C7-00A7C9/2>00A7C8 00A7D0-00A7D0/1>00A7D1 "
      \o "00A7D6-00A7D8/2>00A7D7 00A7F5-00A7F5/1>00A7F6 00FF21-00FF3A/1>00FF41 010400-010427/1>010428 "
      \o "0104B0-0104D3/1>0104D8 010570-01057A/1>010597 01057C-01058A/1>0105A3 01058C-010592/1>0105B3 "
      \o "010594-010595/1>0105BB 010C80-010CB2/1>010CC0 0118A0-0118BF/1>0118C0 016E40-016E5F/1>016E60 "
      \o "01E900-01E921/1>01E922 ")

\* the Final_Sigma test of str.lower(): the cased characters that are not
\* case-ignorable
CasedRanges ==
    Ranges("000041-00005A 000061-00007A 0000AA-0000AA 0000B5-0000B5 0000BA-0000BA 0000C0-0000D6 "
      \o "0000D8-0000F6 0000F8-0001BA 0001BC-0001BF 0001C4-000293 000295-0002AF 000370-000373 "
      \o "000376-000377 00037B-00037D 00037F-00037F 000386-000386 000388-00038A 00038C-00038C "
      \o "00038E-0003A1 0003A3-0003F5 0003F7-000481 00048A-00052F 000531-000556 000560-000588 "
      \o "0010A0-0010C5 0010C7-0010C7 0010CD-0010CD 0010D0-0010FA 0010FD-0010FF 0013A0-0013F5 "
      \o "0013F8-0013FD 001C80-001C88 001C90-001CBA 001CBD-001CBF 001D00-001D2B 001D6B-001D77 "
      \o "001D79-001D9A 001E00-001F15 001F18-001F1D 001F20-001F45 001F48-001F4D 001F50-001F57 "
      \o "001F59-001F59 001F5B-001F5B 001F5D-001F5D 001F5F-001F7D 001F80-001FB4 001FB6-001FBC "
      \o "001FBE-001FBE 001FC2-001FC4 001FC6-001FCC 001FD0-001FD3 001FD6-001FDB 001FE0-001FEC "
      \o "001FF2-001FF4 001FF6-001FFC 002102-002102 002107-002107 00210A-002113 002115-002115 "
      \o "002119-00211D 002124-002124 002126-002126 002128-002128 00212A-00212D 00212F-002134 "
      \o "002139-002139 00213C-00213F 002145-002149 00214E-00214E 002160-00217F 002183-002184 "
      \o "0024B6-0024E9 002C00-002C7B 002C7E-002CE4 002CEB-002CEE 002CF2-002CF3 002D00-002D25 "
      \o "002D27-002D27 002D2D-002D2D 00A640-00A66D 00A680-00A69B 00A722-00A76F 00A771-00A787 "
      \o "00A78B-00A78E 00A790-00A7CA 00A7D0-00A7D1 00A7D3-00A7D3 00A7D5-00A7D9 00A7F5-00A7F6 "
      \o "00A7FA-00A7FA 00AB30-00AB5A 00AB60-00AB68 00AB70-00ABBF 00FB00-00FB06 00FB13-00FB17 "
      \o "00FF21-00FF3A 00FF41-00FF5A 010400-01044F 0104B0-0104D3 0104D8-0104FB 010570-01057A "
      \o "01057C-01058A 01058C-010592 010594-010595 010597-0105A1 0105A3-0105B1 0105B3-0105B9 "
      \o "0105BB-0105BC 010C80-010CB2 010CC0-010CF2 0118A0-0118DF 016E40-016E7F 01D400-01D454 "
      \o "01D456-01D49C 01D49E-01D49F 01D4A2-01D4A2 01D4A5-01D4A6 01D4A9-01D4AC 01D4AE-01D4B9 "
      \o "01D4BB-01D4BB 01D4BD-01D4C3 01D4C5-01D505 01D507-01D50A 01D50D-01D514 01D516-01D51C "
      \o "01D51E-01D539 01D53B-01D53E 01D540-01D544 01D546-01D546 01D54A-01D550 01D552-01D6A5 "
      \o "01D6A8-01D6C0 01D6C2-01D6DA 01D6DC-01D6FA 01D6FC-01D714 01D716-01D734 01D736-01D74E "
      \o "01D750-01D76E 01D770-01D788 01D78A-01D7A8 01D7AA-01D7C2 01D7C4-01D7CB 01DF00-01DF09 "
      \o "01DF0B-01DF1E 01E900-01E943 01F130-01F149 01F150-01F169 01F170-01F189 ")

\* the Final_Sigma test of str.lower(): the case-ignorable characters
CaseIgnorableRanges ==
    Ranges("000027-000027 00002E-00002E 00003A-00003A 00005E-00005E 000060-000060 0000A8-0000A8 "
      \o "0000AD-0000AD 0000AF-0000AF 0000B4-0000B4 0000B7-0000B8 0002B0-00036F 000374-000375 "
      \o "00037A-00037A 000384-000385 000387-000387 000483-000489 000559-000559 00055F-00055F "
      \o "000591-0005BD 0005BF-0005BF 0005C1-0005C2 0005C4-0005C5 0005C7-0005C7 0005F4-0005F4 "
      \o "000600-000605 000610-00061A 00061C-00061C 000640-000640 00064B-00065F 000670-000670 "
      \o "0006D6-0006DD 0006DF-0006E8 0006EA-0006ED 00070F-00070F 000711-000711 000730-00074A "
      \o "0007A6-0007B0 0007EB-0007F5 0007FA-0007FA 0007FD-0007FD 000816-00082D 000859-00085B "
      \o "000888-000888 000890-000891 000898-00089F 0008C9-000902 00093A-00093A 00093C-00093C "
      \o "000941-000948 00094D-00094D 000951-000957 000962-000963 000971-000971 000981-000981 "
      \o "0009BC-0009BC 0009C1-0009C4 0009CD-0009CD 0009E2-0009E3 0009FE-0009FE 000A01-000A02 "
      \o "000A3C-000A3C 000A41-000A42 000A47-000A48 000A4B-000A4D 000A51-000A51 000A70-000A71 "
      \o "000A75-000A75 000A81-000A82 000ABC-000ABC 000AC1-000AC5 000AC7-000AC8 000ACD-000ACD "
      \o "000AE2-000AE3 000AFA-000AFF 000B01-000B01 000B3C-000B3C 000B3F-000B3F 000B41-000B44 "
      \o "000B4D-000B4D 000B55-000B56 000B62-000B63 000B82-000B82 000BC0-000BC0 000BCD-000BCD "
      \o "000C00-000C00 000C04-000C04 000C3C-000C3C 000C3E-000C40 000C46-000C48 000C4A-000C4D "
      \o "000C55-000C56 000C62-000C63 000C81-000C81 000CBC-000CBC 000CBF-000CBF 000CC6-000CC6 "
      \o "000CCC-000CCD 000CE2-000CE3 000D00-000D01 000D3B-000D3C 000D41-000D44 000D4D-000D4D "
      \o "000D62-000D63 000D81-000D81 000DCA-000DCA 000DD2-000DD4 000DD6-000DD6 000E31-000E31 "
      \o "000E34-000E3A 000E46-000E4E 000EB1-000EB1 000EB4-000EBC 000EC6-000EC6 000EC8-000ECD "
      \o "000F18-000F19 000F35-000F35 000F37-000F37 000F39-000F39 000F71-000F7E 000F80-000F84 "
      \o "000F86-000F87 000F8D-000F97 000F99-000FBC 000FC6-000FC6 00102D-001030 001032-001037 "
      \o "001039-00103A 00103D-00103E 001058-001059 00105E-001060 001071-001074 001082-001082 "
      \o "001085-001086 00108D-00108D 00109D-00109D 0010FC-0010FC 00135D-00135F 001712-001714 "
      \o "001732-001733 001752-001753 001772-001773 0017B4-0017B5 0017B7-0017BD 0017C6-0017C6 "
      \o "0017C9-0017D3 0017D7-0017D7 0017DD-0017DD 00180B-00180F 001843-001843 001885-001886 "
      \o "0018A9-0018A9 001920-001922 001927-001928 001932-001932 001939-00193B 001A17-001A18 "
      \o "001A1B-001A1B 001A56-001A56 001A58-001A5E 001A60-001A60 001A62-001A62 001A65-001A6C "
      \o "001A73-001A7C 001A7F-001A7F 001AA7-001AA7 001AB0-001ACE 001B00-001B03 001B34-001B34 "
      \o "001B36-001B3A 001B3C-001B3C 001B42-001B42 001B6B-001B73 001B80-001B81 001BA2-001BA5 "
      \o "001BA8-001BA9 001BAB-001BAD 001BE6-001BE6 001BE8-001BE9 001BED-001BED 001BEF-001BF1 "
      \o "001C2C-001C33 001C36-001C37 001C78-001C7D 001CD0-001CD2 001CD4-001CE0 001CE2-001CE8 "
      \o "001CED-001CED 001CF4-001CF4 001CF8-001CF9 001D2C-001D6A 001D78-001D78 001D9B-001DFF "
      \o "001FBD-001FBD 001FBF-001FC1 001FCD-001FCF 001FDD-001FDF 001FED-001FEF 001FFD-001FFE "
      \o "00200B-00200F 002018-002019 002024-002024 002027-002027 00202A-00202E 002060-002064 "
      \o "002066-00206F 002071-002071 00207F-00207F 002090-00209C 0020D0-0020F0 002C7C-002C7D "
      \o "002CEF-002CF1 002D6F-002D6F 002D7F-002D7F 002DE0-002DFF 002E2F-002E2F 003005-003005 "
      \o "00302A-00302D 003031-003035 00303B-00303B 003099-00309E 0030FC-0030FE 00A015-00A015 "
      \o "00A4F8-00A4FD 00A60C-00A60C 00A66F-00A672 00A674-00A67D 00A67F-00A67F 00A69C-00A69F "
      \o "00A6F0-00A6F1 00A700-00A721 00A770-00A770 00A788-00A78A 00A7F2-00A7F4 00A7F8-00A7F9 "
      \o "00A802-00A802 00A806-00A806 00A80B-00A80B 00A825-00A826 00A82C-00A82C 00A8C4-00A8C5 "
      \o "00A8E0-00A8F1 00A8FF-00A8FF 00A926-00A92D 00A947-00A951 00A980-00A982 00A9B3-00A9B3 "
      \o "00A9B6-00A9B9 00A9BC-00A9BD 00A9CF-00A9CF 00A9E5-00A9E6 00AA29-00AA2E 00AA31-00AA32 "
      \o "00AA35-00AA36 00AA43-00AA43 00AA4C-00AA4C 00AA70-00AA70 00AA7C-00AA7C 00AAB0-00AAB0 "
      \o "00AAB2-00AAB4 00AAB7-00AAB8 00AABE-00AABF 00AAC1-00AAC1 00AADD-00AADD 00AAEC-00AAED "
      \o "00AAF3-00AAF4 00AAF6-00AAF6 00AB5B-00AB5F 00AB69-00AB6B 00ABE5-00ABE5 00ABE8-00ABE8 "
      \o "00ABED-00ABED 00FB1E-00FB1E 00FBB2-00FBC2 00FE00-00FE0F 00FE13-00FE13 00FE20-00FE2F "
      \o "00FE52-00FE52 00FE55-00FE55 00FEFF-00FEFF 00FF07-00FF07 00FF0E-00FF0E 00FF1A-00FF1A "
      \o "00FF3E-00FF3E 00FF40-00FF40 00FF70-00FF70 00FF9E-00FF9F 00FFE3-00FFE3 00FFF9-00FFFB "
      \o "0101FD-0101FD 0102E0-0102E0 010376-01037A 010780-010785 010787-0107B0 0107B2-0107BA "
      \o "010A01-010A03 010A05-010A06 010A0C-010A0F 010A38-010A3A 010A3F-010A3F 010AE5-010AE6 "
      \o "010D24-010D27 010EAB-010EAC 010F46-010F50 010F82-010F85 011001-011001 011038-011046 "
      \o "011070-011070 011073-011074 01107F-011081 0110B3-0110B6 0110B9-0110BA 0110BD-0110BD "
      \o "0110C2-0110C2 0110CD-0110CD 011100-011102 011127-01112B 01112D-011134 011173-011173 "
      \o "011180-011181 0111B6-0111BE 0111C9-0111CC 0111CF-0111CF 01122F-011231 011234-011234 "
      \o "011236-011237 01123E-01123E 0112DF-0112DF 0112E3-0112EA 011300-011301 01133B-01133C "
      \o "011340-011340 011366-01136C 011370-011374 011438-01143F 011442-011444 011446-011446 "
      \o "01145E-01145E 0114B3-0114B8 0114BA-0114BA 0114BF-0114C0 0114C2-0114C3 0115B2-0115B5 "
      \o "0115BC-0115BD 0115BF-0115C0 0115DC-0115DD 011633-01163A 01163D-01163D 01163F-011640 "
      \o "0116AB-0116AB 0116AD-0116AD 0116B0-0116B5 0116B7-0116B7 01171D-01171F 011722-011725 "
      \o "011727-01172B 01182F-011837 011839-01183A 01193B-01193C 01193E-01193E 011943-011943 "
      \o "0119D4-0119D7 0119DA-0119DB 0119E0-0119E0 011A01-011A0A 011A33-011A38 011A3B-011A3E "
      \o "011A47-011A47 011A51-011A56 011A59-011A5B 011A8A-011A96 011A98-011A99 011C30-011C36 "
      \o "011C38-011C3D 011C3F-011C3F 011C92-011CA7 011CAA-011CB0 011CB2-011CB3 011CB5-011CB6 "
      \o "011D31-011D36 011D3A-011D3A 011D3C-011D3D 011D3F-011D45 011D47-011D47 011D90-011D91 "
      \o "011D95-011D95 011D97-011D97 011EF3-011EF4 013430-013438 016AF0-016AF4 016B30-016B36 "
      \o "016B40-016B43 016F4F-016F4F 016F8F-016F9F 016FE0-016FE1 016FE3-016FE4 01AFF0-01AFF3 "
      \o "01AFF5-01AFFB 01AFFD-01AFFE 01BC9D-01BC9E 01BCA0-01BCA3 01CF00-01CF2D 01CF30-01CF46 "
      \o "01D167-01D169 01D173-01D182 01D185-01D18B 01D1AA-01D1AD 01D242-01D244 01DA00-01DA36 "
      \o "01DA3B-01DA6C 01DA75-01DA75 01DA84-01DA84 01DA9B-01DA9F 01DAA1-01DAAF 01E000-01E006 "
      \o "01E008-01E018 01E01B-01E021 01E023-01E024 01E026-01E02A 01E130-01E13D 01E2AE-01E2AE "
      \o "01E2EC-01E2EF 01E8D0-01E8D6 01E944-01E94B 01F3FB-01F3FF 0E0001-0E0001 0E0020-0E007F "
      \o "0E0100-0E01EF ")

\* the characters for which str.isprintable() is false
NonPrintableRanges ==
    Ranges("000000-00001F 00007F-0000A0 0000AD-0000AD 000378-000379 000380-000383 00038B-00038B "
      \o "00038D-00038D 0003A2-0003A2 000530-000530 000557-000558 00058B-00058C 000590-000590 "
      \o "0005C8-0005CF 0005EB-0005EE 0005F5-000605 00061C-00061C 0006DD-0006DD 00070E-00070F "
      \o "00074B-00074C 0007B2-0007BF 0007FB-0007FC 00082E-00082F 00083F-00083F 00085C-00085D "
      \o "00085F-00085F 00086B-00086F 00088F-000897 0008E2-0008E2 000984-000984 00098D-00098E "
      \o "000991-000992 0009A9-0009A9 0009B1-0009B1 0009B3-0009B5 0009BA-0009BB 0009C5-0009C6 "
      \o "0009C9-0009CA 0009CF-0009D6 0009D8-0009DB 0009DE-0009DE 0009E4-0009E5 0009FF-000A00 "
      \o "000A04-000A04 000A0B-000A0E 000A11-000A12 000A29-000A29 000A31-000A31 000A34-000A34 "
      \o "000A37-000A37 000A3A-000A3B 000A3D-000A3D 000A43-000A46 000A49-000A4A 000A4E-000A50 "
      \o "000A52-000A58 000A5D-000A5D 000A5F-000A65 000A77-000A80 000A84-000A84 000A8E-000A8E "
      \o "000A92-000A92 000AA9-000AA9 000AB1-000AB1 000AB4-000AB4 000ABA-000ABB 000AC6-000AC6 "
      \o "000ACA-000ACA 000ACE-000ACF 000AD1-000ADF 000AE4-000AE5 000AF2-000AF8 000B00-000B00 "
      \o "000B04-000B04 000B0D-000B0E 000B11-000B12 000B29-000B29 000B31-000B31 000B34-000B34 "
      \o "000B3A-000B3B 000B45-000B46 000B49-000B4A 000B4E-000B54 000B58-000B5B 000B5E-000B5E "
      \o "000B64-000B65 000B78-000B81 000B84-000B84 000B8B-000B8D 000B91-000B91 000B96-000B98 "
      \o "000B9B-000B9B 000B9D-000B9D 000BA0-000BA2 000BA5-000BA7 000BAB-000BAD 000BBA-000BBD "
      \o "000BC3-000BC5 000BC9-000BC9 000BCE-000BCF 000BD1-000BD6 000BD8-000BE5 000BFB-000BFF "
      \o "000C0D-000C0D 000C11-000C11 000C29-000C29 000C3A-000C3B 000C45-000C45 000C49-000C49 "
      \o "000C4E-000C54 000C57-000C57 000C5B-000C5C 000C5E-000C5F 000C64-000C65 000C70-000C76 "
      \o "000C8D-000C8D 000C91-000C91 000CA9-000CA9 000CB4-000CB4 000CBA-000CBB 000CC5-000CC5 "
      \o "000CC9-000CC9 000CCE-000CD4 000CD7-000CDC 000CDF-000CDF 000CE4-000CE5 000CF0-000CF0 "
      \o "000CF3-000CFF 000D0D-000D0D 000D11-000D11 000D45-000D45 000D49-000D49 000D50-000D53 "
      \o "000D64-000D65 000D80-000D80 000D84-000D84 000D97-000D99 000DB2-000DB2 000DBC-000DBC "
      \o "000DBE-000DBF 000DC7-000DC9 000DCB-000DCE 000DD5-000DD5 000DD7-000DD7 000DE0-000DE5 "
      \o "000DF0-000DF1 000DF5-000E00 000E3B-000E3E 000E5C-000E80 000E83-000E83 000E85-000E85 "
      \o "000E8B-000E8B 000EA4-000EA4 000EA6-000EA6 000EBE-000EBF 000EC5-000EC5 000EC7-000EC7 "
      \o "000ECE-000ECF 000EDA-000EDB 000EE0-000EFF 000F48-000F48 000F6D-000F70 000F98-000F98 "
      \o "000FBD-000FBD 000FCD-000FCD 000FDB-000FFF 0010C6-0010C6 0010C8-0010CC 0010CE-0010CF "
      \o "001249-001249 00124E-00124F 001257-001257 001259-001259 00125E-00125F 001289-001289 "
      \o "00128E-00128F 0012B1-0012B1 0012B6-0012B7 0012BF-0012BF 0012C1-0012C1 0012C6-0012C7 "
      \o "0012D7-0012D7 001311-001311 001316-001317 00135B-00135C 00137D-00137F 00139A-00139F "
      \o "0013F6-0013F7 0013FE-0013FF 001680-001680 00169D-00169F 0016F9-0016FF 001716-00171E "
      \o "001737-00173F 001754-00175F 00176D-00176D 001771-001771 001774-00177F 0017DE-0017DF "
      \o "0017EA-0017EF 0017FA-0017FF 00180E-00180E 00181A-00181F 001879-00187F 0018AB-0018AF "
      \o "0018F6-0018FF 00191F-00191F 00192C-00192F 00193C-00193F 001941-001943 00196E-00196F "
      \o "001975-00197F 0019AC-0019AF 0019CA-0019CF 0019DB-0019DD 001A1C-001A1D 001A5F-001A5F "
      \o "001A7D-001A7E 001A8A-001A8F 001A9A-001A9F 001AAE-001AAF 001ACF-001AFF 001B4D-001B4F "
      \o "001B7F-001B7F 001BF4-001BFB 001C38-001C3A 001C4A-001C4C 001C89-001C8F 001CBB-001CBC "
      \o "001CC8-001CCF 001CFB-001CFF 001F16-001F17 001F1E-001F1F 001F46-001F47 001F4E-001F4F "
      \o "001F58-001F58 001F5A-001F5A 001F5C-001F5C 001F5E-001F5E 001F7E-001F7F 001FB5-001FB5 "
      \o "001FC5-001FC5 001FD4-001FD5 001FDC-001FDC 001FF0-001FF1 001FF5-001FF5 001FFF-00200F "
      \o "002028-00202F 00205F-00206F 002072-002073 00208F-00208F 00209D-00209F 0020C1-0020CF "
      \o "0020F1-0020FF 00218C-00218F 002427-00243F 00244B-00245F 002B74-002B75 002B96-002B96 "
      \o "002CF4-002CF8 002D26-002D26 002D28-002D2C 002D2E-002D2F 002D68-002D6E 002D71-002D7E "
      \o "002D97-002D9F 002DA7-002DA7 002DAF-002DAF 002DB7-002DB7 002DBF-002DBF 002DC7-002DC7 "
      \o "002DCF-002DCF 002DD7-002DD7 002DDF-002DDF 002E5E-002E7F 002E9A-002E9A 002EF4-002EFF "
      \o "002FD6-002FEF 002FFC-003000 003040-003040 003097-003098 003100-003104 003130-003130 "
      \o "00318F-00318F 0031E4-0031EF 00321F-00321F 00A48D-00A48F 00A4C7-00A4CF 00A62C-00A63F "
      \o "00A6F8-00A6FF 00A7CB-00A7CF 00A7D2-00A7D2 00A7D4-00A7D4 00A7DA-00A7F1 00A82D-00A82F "
      \o "00A83A-00A83F 00A878-00A87F 00A8C6-00A8CD 00A8DA-00A8DF 00A954-00A95E 00A97D-00A97F "
      \o "00A9CE-00A9CE 00A9DA-00A9DD 00A9FF-00A9FF 00AA37-00AA3F 00AA4E-00AA4F 00AA5A-00AA5B "
      \o "00AAC3-00AADA 00AAF7-00AB00 00AB07-00AB08 00AB0F-00AB10 00AB17-00AB1F 00AB27-00AB27 "
      \o "00AB2F-00AB2F 00AB6C-00AB6F 00ABEE-00ABEF 00ABFA-00ABFF 00D7A4-00D7AF 00D7C7-00D7CA "
      \o "00D7FC-00F8FF 00FA6E-00FA6F 00FADA-00FAFF 00FB07-00FB12 00FB18-00FB1C 00FB37-00FB37 "
      \o "00FB3D-00FB3D 00FB3F-00FB3F 00FB42-00FB42 00FB45-00FB45 00FBC3-00FBD2 00FD90-00FD91 "
      \o "00FDC8-00FDCE 00FDD0-00FDEF 00FE1A-00FE1F 00FE53-00FE53 00FE67-00FE67 00FE6C-00FE6F "
      \o "00FE75-00FE75 00FEFD-00FF00 00FFBF-00FFC1 00FFC8-00FFC9 00FFD0-00FFD1 00FFD8-00FFD9 "
      \o "00FFDD-00FFDF 00FFE7-00FFE7 00FFEF-00FFFB 00FFFE-00FFFF 01000C-01000C 010027-010027 "
      \o "01003B-01003B 01003E-01003E 01004E-01004F 01005E-01007F 0100FB-0100FF 010103-010106 "
      \o "010134-010136 01018F-01018F 01019D-01019F 0101A1-0101CF 0101FE-01027F 01029D-01029F "
      \o "0102D1-0102DF 0102FC-0102FF 010324-01032C 01034B-01034F 01037B-01037F 01039E-01039E "
      \o "0103C4-0103C7 0103D6-0103FF 01049E-01049F 0104AA-0104AF 0104D4-0104D7 0104FC-0104FF "
      \o "010528-01052F 010564-01056E 01057B-01057B 01058B-01058B 010593-010593 010596-010596 "
      \o "0105A2-0105A2 0105B2-0105B2 0105BA-0105BA 0105BD-0105FF 010737-01073F 010756-01075F "
      \o "010768-01077F 010786-010786 0107B1-0107B1 0107BB-0107FF 010806-010807 010809-010809 "
      \o "010836-010836 010839-01083B 01083D-01083E 010856-010856 01089F-0108A6 0108B0-0108DF "
      \o "0108F3-0108F3 0108F6-0108FA 01091C-01091E 01093A-01093E 010940-01097F 0109B8-0109BB "
      \o "0109D0-0109D1 010A04-010A04 010A07-010A0B 010A14-010A14 010A18-010A18 010A36-010A37 "
      \o "010A3B-010A3E 010A49-010A4F 010A59-010A5F 010AA0-010ABF 010AE7-010AEA 010AF7-010AFF "
      \o "010B36-010B38 010B56-010B57 010B73-010B77 010B92-010B98 010B9D-010BA8 010BB0-010BFF "
      \o "010C49-010C7F 010CB3-010CBF 010CF3-010CF9 010D28-010D2F 010D3A-010E5F 010E7F-010E7F "
      \o "010EAA-010EAA 010EAE-010EAF 010EB2-010EFF 010F28-010F2F 010F5A-010F6F 010F8A-010FAF "
      \o "010FCC-010FDF 010FF7-010FFF 01104E-011051 011076-01107E 0110BD-0110BD 0110C3-0110CF "
      \o "0110E9-0110EF 0110FA-0110FF 011135-011135 011148-01114F 011177-01117F 0111E0-0111E0 "
      \o "0111F5-0111FF 011212-011212 01123F-01127F 011287-011287 011289-011289 01128E-01128E "
      \o "01129E-01129E 0112AA-0112AF 0112EB-0112EF 0112FA-0112FF 011304-011304 01130D-01130E "
      \o "011311-011312 011329-011329 011331-011331 011334-011334 01133A-01133A 011345-011346 "
      \o "011349-01134A 01134E-01134F 011351-011356 011358-01135C 011364-011365 01136D-01136F "
      \o "011375-0113FF 01145C-01145C 011462-01147F 0114C8-0114CF 0114DA-01157F 0115B6-0115B7 "
      \o "0115DE-0115FF 011645-01164F 01165A-01165F 01166D-01167F 0116BA-0116BF 0116CA-0116FF "
      \o "01171B-01171C 01172C-01172F 011747-0117FF 01183C-01189F 0118F3-0118FE 011907-011908 "
      \o "01190A-01190B 011914-011914 011917-011917 011936-011936 011939-01193A 011947-01194F "
      \o "01195A-01199F 0119A8-0119A9 0119D8-0119D9 0119E5-0119FF 011A48-011A4F 011AA3-011AAF "
      \o "011AF9-011BFF 011C09-011C09 011C37-011C37 011C46-011C4F 011C6D-011C6F 011C90-011C91 "
      \o "011CA8-011CA8 011CB7-011CFF 011D07-011D07 011D0A-011D0A 011D37-011D39 011D3B-011D3B "
      \o "011D3E-011D3E 011D48-011D4F 011D5A-011D5F 011D66-011D66 011D69-011D69 011D8F-011D8F "
      \o "011D92-011D92 011D99-011D9F 011DAA-011EDF 011EF9-011FAF 011FB1-011FBF 011FF2-011FFE "
      \o "01239A-0123FF 01246F-01246F 012475-01247F 012544-012F8F 012FF3-012FFF 01342F-0143FF "
      \o "014647-0167FF 016A39-016A3F 016A5F-016A5F 016A6A-016A6D 016ABF-016ABF 016ACA-016ACF "
      \o "016AEE-016AEF 016AF6-016AFF 016B46-016B4F 016B5A-016B5A 016B62-016B62 016B78-016B7C "
      \o "016B90-016E3F 016E9B-016EFF 016F4B-016F4E 016F88-016F8E 016FA0-016FDF 016FE5-016FEF "
      \o "016FF2-016FFF 0187F8-0187FF 018CD6-018CFF 018D09-01AFEF 01AFF4-01AFF4 01AFFC-01AFFC "
      \o "01AFFF-01AFFF 01B123-01B14F 01B153-01B163 01B168-01B16F 01B2FC-01BBFF 01BC6B-01BC6F "
      \o "01BC7D-01BC7F 01BC89-01BC8F 01BC9A-01BC9B 01BCA0-01CEFF 01CF2E-01CF2F 01CF47-01CF4F "
      \o "01CFC4-01CFFF 01D0F6-01D0FF 01D127-01D128 01D173-01D17A 01D1EB-01D1FF 01D246-01D2DF "
      \o "01D2F4-01D2FF 01D357-01D35F 01D379-01D3FF 01D455-01D455 01D49D-01D49D 01D4A0-01D4A1 "
      \o "01D4A3-01D4A4 01D4A7-01D4A8 01D4AD-01D4AD 01D4BA-01D4BA 01D4BC-01D4BC 01D4C4-01D4C4 "
      \o "01D506-01D506 01D50B-01D50C 01D515-01D515 01D51D-01D51D 01D53A-01D53A 01D53F-01D53F "
      \o "01D545-01D545 01D547-01D549 01D551-01D551 01D6A6-01D6A7 01D7CC-01D7CD 01DA8C-01DA9A "
      \o "01DAA0-01DAA0 01DAB0-01DEFF 01DF1F-01DFFF 01E007-01E007 01E019-01E01A 01E022-01E022 "
      \o "01E025-01E025 01E02B-01E0FF 01E12D-01E12F 01E13E-01E13F 01E14A-01E14D 01E150-01E28F "
      \o "01E2AF-01E2BF 01E2FA-01E2FE 01E300-01E7DF 01E7E7-01E7E7 01E7EC-01E7EC 01E7EF-01E7EF "
      \o "01E7FF-01E7FF 01E8C5-01E8C6 01E8D7-01E8FF 01E94C-01E94F 01E95A-01E95D 01E960-01EC70 "
      \o "01ECB5-01ED00 01ED3E-01EDFF 01EE04-01EE04 01EE20-01EE20 01EE23-01EE23 01EE25-01EE26 "
      \o "01EE28-01EE28 01EE33-01EE33 01EE38-01EE38 01EE3A-01EE3A 01EE3C-01EE41 01EE43-01EE46 "
      \o "01EE48-01EE48 01EE4A-01EE4A 01EE4C-01EE4C 01EE50-01EE50 01EE53-01EE53 01EE55-01EE56 "
      \o "01EE58-01EE58 01EE5A-01EE5A 01EE5C-01EE5C 01EE5E-01EE5E 01EE60-01EE60 01EE63-01EE63 "
      \o "01EE65-01EE66 01EE6B-01EE6B 01EE73-01EE73 01EE78-01EE78 01EE7D-01EE7D 01EE7F-01EE7F "
      \o "01EE8A-01EE8A 01EE9C-01EEA0 01EEA4-01EEA4 01EEAA-01EEAA 01EEBC-01EEEF 01EEF2-01EFFF "
      \o "01F02C-01F02F 01F094-01F09F 01F0AF-01F0B0 01F0C0-01F0C0 01F0D0-01F0D0 01F0F6-01F0FF "
      \o "01F1AE-01F1E5 01F203-01F20F 01F23C-01F23F 01F249-01F24F 01F252-01F25F 01F266-01F2FF "
      \o "01F6D8-01F6DC 01F6ED-01F6EF 01F6FD-01F6FF 01F774-01F77F 01F7D9-01F7DF 01F7EC-01F7EF "
      \o "01F7F1-01F7FF 01F80C-01F80F 01F848-01F84F 01F85A-01F85F 01F888-01F88F 01F8AE-01F8AF "
      \o "01F8B2-01F8FF 01FA54-01FA5F 01FA6E-01FA6F 01FA75-01FA77 01FA7D-01FA7F 01FA87-01FA8F "
      \o "01FAAD-01FAAF 01FABB-01FABF 01FAC6-01FACF 01FADA-01FADF 01FAE8-01FAEF 01FAF7-01FAFF "
      \o "01FB93-01FB93 01FBCB-01FBEF 01FBFA-01FFFF 02A6E0-02A6FF 02B739-02B73F 02B81E-02B81F "
      \o "02CEA2-02CEAF 02EBE1-02F7FF 02FA1E-02FFFF 03134B-0E00FF 0E01F0-10FFFF ")

\* the code point n is mapped to by the tuples <<first, last, step, target>>,
\* n itself when none holds it
MappedBy(mappings, n) ==
    LET hits == {r \in {mappings[i] : i \in 1..Len(mappings)} :
                    r[1] <= n /\ n <= r[2] /\ (n - r[1]) % r[3] = 0}
    IN  IF hits = {} THEN n ELSE (CHOOSE r \in hits : TRUE)[4] - (CHOOSE r \in hits : TRUE)[1] + n

\* str.lower() on an ASCII character
AsciiLower(c) ==
    CASE c = "A" -> "a" [] c = "B" -> "b" [] c = "C" -> "c" [] c = "D" -> "d"
      [] c = "E" -> "e" [] c = "F" -> "f" [] c = "G" -> "g" [] c = "H" -> "h"
      [] c = "I" -> "i" [] c = "J" -> "j" [] c = "K" -> "k" [] c = "L" -> "l"
      [] c = "M" -> "m" [] c = "N" -> "n" [] c = "O" -> "o" [] c = "P" -> "p"
      [] c = "Q" -> "q" [] c = "R" -> "r" [] c = "S" -> "s" [] c = "T" -> "t"
      [] c = "U" -> "u" [] c = "V" -> "v" [] c = "W" -> "w" [] c = "X" -> "x"
      [] c = "Y" -> "y" [] c = "Z" -> "z"
      [] OTHER -> c

\* str.lower() on a string of one character: a string of one character, or
\* of two for U+0130 (capital I with dot above)
LowerChar(c) ==
    IF Len(c) = 1 THEN <<AsciiLower(c)>>
    ELSE IF c = "U+0130" THEN <<"i", "U+0307">>
    ELSE <<CharOf(MappedBy(LowerRanges, CodePoint(c)))>>

\* the Final_Sigma context at position i: the nearest character before it
\* that is not case-ignorable is cased, and the nearest one after it is not;
\* ignorable[j] and cased[j] tell what the character at position j is
FinalSigmaAt(ignorable, cased, i) ==
    /\ \E j \in 1..(i - 1) :
          cased[j] /\ \A k \in (j + 1)..(i - 1) : ignorable[k]
    /\ ~\E j \in (i + 1)..Len(cased) :
          cased[j] /\ \A k \in (i + 1)..(j - 1) : ignorable[k]

\* the capital sigma at position i of s is in the Final_Sigma context
FinalSigma(s, i) ==
    FinalSigmaAt([j \in 1..Len(s) |-> InRanges(CaseIgnorableRanges, CodePoint(s[j]))],
                 [j \in 1..Len(s) |-> InRanges(CasedRanges, CodePoint(s[j]))], i)

\* str.lower() from position i of s
RECURSIVE LowerFrom(_, _)
LowerFrom(s, i) ==
    IF i > Len(s) THEN << >>
    ELSE (IF s[i] = "U+03A3"
          THEN <<IF FinalSigma(s, i) THEN "U+03C2" ELSE "U+03C3">>
          ELSE LowerChar(s[i]))
         \o LowerFrom(s, i + 1)

\* str.lower()
Lower(s) == LowerFrom(s, 1)

\* the strings over alphabet A of length at most n
StringsUpTo(A, n) == UNION {[1..k -> A] : k \in 0..n}

\* index of the first character of s at or after position i that satisfies
\* the test "is '>'", or 0 when there is none
RECURSIVE FirstGt(_, _)
FirstGt(s, i) ==
    IF i > Len(s) THEN 0
    ELSE IF s[i] = ">" THEN i
    ELSE FirstGt(s, i + 1)

\* the end index of a match of the pattern <[^>]+> that starts at position i
\* of s, or 0 when the pattern does not match there
MatchEnd(s, i) ==
    IF i + 2 <= Len(s) /\ s[i] = "<" /\ s[i + 1] # ">"
    THEN FirstGt(s, i + 2)
    ELSE 0

\* re.sub(r'<[^>]+>', '', s): every non-overlapping match, scanned from the
\* left, is replaced by the empty string
RECURSIVE ReSubSpansFrom(_, _)
ReSubSpansFrom(s, i) ==
    IF i > Len(s) THEN << >>
    ELSE IF MatchEnd(s, i) # 0 THEN ReSubSpansFrom(s, MatchEnd(s, i) + 1)
    ELSE <<s[i]>> \o ReSubSpansFrom(s, i + 1)

ReSubSpans(s) == ReSubSpansFrom(s, 1)

\* str.split() with no argument: the maximal runs of non-whitespace
RECURSIVE SplitFrom(_, _, _)
SplitFrom(s, i, cur) ==
    IF i > Len(s) THEN (IF cur = << >> THEN << >> ELSE <<cur>>)
    ELSE IF IsSpace(s[i])
         THEN (IF cur = << >> THEN << >> ELSE <<cur>>) \o SplitFrom(s, i + 1, << >>)
         ELSE SplitFrom(s, i + 1, Append(cur, s[i]))

Split(s) == SplitFrom(s, 1, << >>)

\* ' '.join(parts)
RECURSIVE JoinSpace(_)
JoinSpace(parts) ==
    IF parts = << >> THEN << >>
    ELSE IF Len(parts) = 1 THEN parts[1]
    ELSE parts[1] \o <<" ">> \o JoinSpace(Tail(parts))

\* str.strip() with no argument
RECURSIVE LStrip(_)
LStrip(s) == IF s # << >> /\ IsSpace(Head(s)) THEN LStrip(Tail(s)) ELSE s

RECURSIVE RStrip(_)
RStrip(s) ==
    IF s # << >> /\ IsSpace(s[Len(s)]) THEN RStrip(SubSeq(s, 1, Len(s) - 1)) ELSE s

Strip(s) == RStrip(LStrip(s))

\* the line boundaries of str.splitlines(); "\r" followed by "\n" is one
\* boundary
LineBoundaries ==
    {"\n", "\r", "\f", "U+000B", "U+001C", "U+001D", "U+001E", "U+0085",
     "U+2028", "U+2029"}

\* str.splitlines(): a boundary ends a line, and a last line without boundary
\* is a line if it is not empty
RECURSIVE SplitLinesFrom(_, _, _)
SplitLinesFrom(s, i, cur) ==
    IF i > Len(s) THEN (IF cur = << >> THEN << >> ELSE <<cur>>)
    ELSE IF s[i] = "\r" /\ i < Len(s) /\ s[i + 1] = "\n"
         THEN <<cur>> \o SplitLinesFrom(s, i + 2, << >>)
    ELSE IF s[i] \in LineBoundaries THEN <<cur>> \o SplitLinesFrom(s, i + 1, << >>)
    ELSE SplitLinesFrom(s, i + 1, Append(cur, s[i]))

SplitLines(s) == SplitLinesFrom(s, 1, << >>)

\* needle in hay (Python's substring test), scanning the start positions
RECURSIVE ContainsFrom(_, _, _)
ContainsFrom(hay, needle, i) ==
    IF i + Len(needle) - 1 > Len(hay) THEN FALSE
    ELSE IF SubSeq(hay, i, i + Len(needle) - 1) = needle THEN TRUE
    ELSE ContainsFrom(hay, needle, i + 1)

Contains(hay, needle) == ContainsFrom(hay, needle, 1)

\* x in xs for a Python list xs
RECURSIVE InList(_, _)
InList(x, xs) ==
    IF xs = << >> THEN FALSE
    ELSE IF Head(xs) = x THEN TRUE
    ELSE InList(x, Tail(xs))

\* re.search(r'<([^>]+)>', s): the start of the leftmost match, 0 for no match
RECURSIVE ReSearchFrom(_, _)
ReSearchFrom(s, i) ==
    IF i > Len(s) THEN 0
    ELSE IF MatchEnd(s, i) # 0 THEN i
    ELSE ReSearchFrom(s, i + 1)

ReSearch(s) == ReSearchFrom(s, 1)

\* m.group(1) of the match that starts at position i
Group1(s, i) == SubSeq(s, i + 1, MatchEnd(s, i) - 1)

(***************************************************************************)
(* core.py: ContributorChecker.should_include_contributor and collectors   *)
(***************************************************************************)
\* pair[2] in pair[1]
FoundIn(pair) == Contains(pair[1], pair[2])

\* for login in ignore_logins: if login.lower() in contributor.lower()
RECURSIVE AnyLoginIn(_, _)
AnyLoginIn(ignore_logins, contributor) ==
    IF ignore_logins = << >> THEN FALSE
    ELSE IF FoundIn([k \in 1..2 |-> Lower(<<contributor, Head(ignore_logins)>>[k])])
         THEN TRUE
    ELSE AnyLoginIn(Tail(ignore_logins), contributor)

BOT == <<"b", "o", "t">>
DEPENDABOT == <<"d", "e", "p", "e", "n", "d", "a", "b", "o", "t">>

\* lines 67-68: 'bot' in lower or 'dependabot' in lower
is_bot(lower) == Contains(lower, BOT) \/ Contains(lower, DEPENDABOT)

\* should_include_contributor without the built-in bot filter
should_include_no_builtin(config, contributor) ==
    LET m == ReSearch(contributor)
    IN  IF m # 0 /\ InList(Group1(contributor, m), config.ignore_emails) THEN FALSE
        ELSE IF AnyLoginIn(config.ignore_logins, contributor) THEN FALSE
        ELSE TRUE

\* should_include_contributor matching ignore_emails as substrings of the line
should_include_email_substring(config, contributor) ==
    IF \E k \in 1..Len(config.ignore_emails) :
            Contains(contributor, config.ignore_emails[k]) THEN FALSE
    ELSE IF AnyLoginIn(config.ignore_logins, contributor) THEN FALSE
    ELSE IF is_bot(Lower(contributor)) THEN FALSE
    ELSE TRUE

should_include_contributor(config, contributor) ==
    LET m == ReSearch(contributor)
    IN  IF m # 0 /\ InList(Group1(contributor, m), config.ignore_emails) THEN FALSE
        ELSE IF AnyLoginIn(config.ignore_logins, contributor) THEN FALSE
        ELSE IF is_bot(Lower(contributor)) THEN FALSE
        ELSE TRUE

\* a _run_git handing back what git printed on its error stream
run_git_error_text(git) ==
    IF git.status = "ok" THEN git.stdout ELSE <<"f", "a", "t", "a", "l", "\n">>

\* _run_git: the stdout of the command, '' when it exits non-zero
\* (CalledProcessError is caught and reported)
\* git is [status : {"ok", "nonzero"}, stdout : string]
run_git(git) == IF git.status = "ok" THEN git.stdout ELSE << >>

\* the loop keeping every non-empty line, filtered or not
RECURSIVE collect_lines_unfiltered(_, _)
collect_lines_unfiltered(config, lines) ==
    IF lines = << >> THEN {}
    ELSE LET line == Strip(Head(lines))
         IN  (IF line # << >> THEN {line} ELSE {})
                 \cup collect_lines_unfiltered(config, Tail(lines))

\* the loop of both collectors over out.splitlines()
RECURSIVE CollectLines(_, _)
CollectLines(config, lines) ==
    IF lines = << >> THEN {}
    ELSE LET line == Strip(Head(lines))
             rest == CollectLines(config, Tail(lines))
         IN  IF line # << >> /\ should_include_contributor(config, line)
             THEN {line} \cup rest
             ELSE rest

\* a SHA argument that is None or ''
Falsy(x) == x = None \/ x = << >>

\* the range collector without its test of the two bounds
get_contributors_from_range_unguarded(config, git, base_sha, head_sha) ==
    CollectLines(config, SplitLines(run_git(git)))

\* core.py lines 74-76: the log query is run only with both bounds
range_runs_git(base_sha, head_sha) == ~(Falsy(base_sha) \/ Falsy(head_sha))

get_contributors_from_range(config, git, base_sha, head_sha) ==
    IF Falsy(base_sha) \/ Falsy(head_sha) THEN {}
    ELSE CollectLines(config, SplitLines(run_git(git)))

get_all_contributors(config, git) ==
    CollectLines(config, SplitLines(run_git(git)))

(***************************************************************************)
(* core.py: ContributorChecker.normalize_contributor_name                  *)
(***************************************************************************)
\* the normalizer with re.sub(..., count=1): only the first span is removed
RECURSIVE ReSubFirstFrom(_, _)
ReSubFirstFrom(s, i) ==
    IF i > Len(s) THEN << >>
    ELSE IF MatchEnd(s, i) # 0 THEN SubSeq(s, MatchEnd(s, i) + 1, Len(s))
    ELSE <<s[i]>> \o ReSubFirstFrom(s, i + 1)

normalize_first_span_only(s) == Lower(JoinSpace(Split(ReSubFirstFrom(s, 1))))

\* the normalizer with its two lines swapped: whitespace is collapsed before
\* the spans are removed
normalize_collapse_first(s) == Lower(ReSubSpans(JoinSpace(Split(s))))

\* the normalizer without the final .lower()
normalize_no_lower(s) == JoinSpace(Split(ReSubSpans(s)))

normalize_contributor_name(s) == Lower(JoinSpace(Split(ReSubSpans(s))))

(***************************************************************************)
(* core.py: ContributorChecker.find_missing_contributors                   *)
(***************************************************************************)
\* what a set holds for the number: a member that is no string
NumberMember == <<"int", "5">>

\* isinstance(x, str) for a member of a set of identities
IsStr(x) == x = << >> \/ x[1] # "int"

\* the empty dict
EmptyDict == [k \in {} |-> k]

\* meta_norm = {normalize(m): m for m in metadata_contribs}: the dict is
\* filled one entry at a time in the iteration order of the set, a later
\* entry taking the slot of an earlier one with the same key. The order of a
\* set of strings changes from one run to the next (hash randomisation), so
\* that every entry of a key can be the one the dict keeps: MetaNorm is the
\* set of the dicts the comprehension can build.
RECURSIVE MetaNormOver(_, _)
MetaNormOver(keys, metadata_contribs) ==
    IF keys = {} THEN {EmptyDict}
    ELSE LET key == CHOOSE k \in keys : TRUE
             last == {m \in metadata_contribs : normalize_contributor_name(m) = key}
         IN  {[k \in DOMAIN d \cup {key} |-> IF k = key THEN m ELSE d[k]] :
                 d \in MetaNormOver(keys \ {key}, metadata_contribs), m \in last}

MetaNorm(metadata_contribs) ==
    MetaNormOver({normalize_contributor_name(m) : m \in metadata_contribs},
                 metadata_contribs)

\* the loop comparing the raw strings with the declared entries instead of
\* the keys
missing_loop_exact(contributors, meta_norm) ==
    contributors \ {meta_norm[k] : k \in DOMAIN meta_norm}

\* the loop "for contrib in contributors: if normalize(contrib) not in
\* meta_norm: missing.add(contrib)"
RECURSIVE MissingLoop(_, _)
MissingLoop(contributors, meta_norm) ==
    IF contributors = {} THEN {}
    ELSE LET contrib == CHOOSE x \in contributors : TRUE
             rest == MissingLoop(contributors \ {contrib}, meta_norm)
         IN  IF normalize_contributor_name(contrib) \notin DOMAIN meta_norm
             THEN rest \cup {contrib}
             ELSE rest

\* re.sub in normalize_contributor_name raises TypeError for a value that is
\* no string: find_missing_contributors raises when one of its two sets holds
\* such a member
find_missing_contributors_raises(contributors, metadata_contribs) ==
    \E x \in metadata_contribs \cup contributors : ~IsStr(x)

\* the set returned when no exception is raised. The loop reads the keys of
\* meta_norm only, which every dict of MetaNorm shares, so that the set of
\* outcomes has one element.
find_missing_contributors(contributors, metadata_contribs) ==
    LET outcomes == {MissingLoop(contributors, meta_norm) :
                        meta_norm \in MetaNorm(metadata_contribs)}
    IN  CHOOSE missing \in outcomes : TRUE

(***************************************************************************)
(* Values loaded from CITATION.cff (YAML) and codemeta.json (JSON)         *)
(*                                                                         *)
(* A loaded value is a tagged record: a key that is absent ("nokey"),      *)
(* null ("none"), a string ("str"), a number ("num"), a list ("list") or a *)
(* mapping of a person ("dict", with the fields given, family, name and    *)
(* email standing for given-names/givenName, family-names/familyName, name *)
(* and email).                                                             *)
(***************************************************************************)
V_NoKey == [t |-> "nokey"]
V_None == [t |-> "none"]
V_Num == [t |-> "num"]
V_Str(s) == [t |-> "str", v |-> s]
V_List(entries) == [t |-> "list", v |-> entries]
\* a mapping keeps the order in which the file lists its keys
V_DictInOrder(given, family, name, email, order) ==
    [t |-> "dict", given |-> given, family |-> family, name |-> name, email |-> email,
     order |-> order]
V_Dict(given, family, name, email) ==
    V_DictInOrder(given, family, name, email, <<"given", "family", "name", "email">>)

\* the mapping without keys, and the top-level mappings of the two files
EmptyMapping == [t |-> "dict"]
CitationData(authors) == [t |-> "dict", authors |-> authors]
CodemetaData(author, contributor, maintainer) ==
    [t |-> "dict", author |-> author, contributor |-> contributor,
     maintainer |-> maintainer]

\* the keys a mapping holds, in the order of the file
PresentKeys(v) ==
    IF "order" \in DOMAIN v THEN SelectSeq(v.order, LAMBDA k : v[k].t # "nokey")
    ELSE << >>

\* bool(v) for the value a.get(key) returns; an absent key gives None
Truthy(v) ==
    CASE v.t = "str" -> v.v # << >>
      [] v.t = "num" -> TRUE
      [] v.t = "list" -> v.v # << >>
      [] v.t = "dict" -> \E k \in DOMAIN v \ {"t", "order"} : v[k].t # "nokey"
      [] OTHER -> FALSE

\* the names of the keys of a person in CITATION.cff and in codemeta.json
CitationKeyNames ==
    [given |-> <<"g", "i", "v", "e", "n", "-", "n", "a", "m", "e", "s">>,
     family |-> <<"f", "a", "m", "i", "l", "y", "-", "n", "a", "m", "e", "s">>,
     name |-> <<"n", "a", "m", "e">>,
     email |-> <<"e", "m", "a", "i", "l">>]

CodemetaKeyNames ==
    [given |-> <<"g", "i", "v", "e", "n", "N", "a", "m", "e">>,
     family |-> <<"f", "a", "m", "i", "l", "y", "N", "a", "m", "e">>,
     name |-> <<"n", "a", "m", "e">>,
     email |-> <<"e", "m", "a", "i", "l">>]

\* repr() of the character c with code point n, outside printable ASCII: the
\* character when it is printable, else its escape \xNN, \uNNNN or \UNNNNNNNN
ReprCode(c, n) ==
    IF ~InRanges(NonPrintableRanges, n) THEN <<c>>
    ELSE <<"U+005C", IF n < 256 THEN "x" ELSE IF n < 65536 THEN "u" ELSE "U">>
         \o HexLower(n, IF n < 256 THEN 2 ELSE IF n < 65536 THEN 4 ELSE 8)

\* repr() of one character inside a string literal quoted with q
ReprChar(c, q) ==
    IF c = "U+005C" THEN <<"U+005C", "U+005C">>
    ELSE IF c = q THEN <<"U+005C", q>>
    ELSE IF c = "\n" THEN <<"U+005C", "n">>
    ELSE IF c = "\r" THEN <<"U+005C", "r">>
    ELSE IF c = "\t" THEN <<"U+005C", "t">>
    ELSE IF c \in AsciiChars THEN <<c>>
    ELSE ReprCode(c, CodePoint(c))

RECURSIVE ReprChars(_, _)
ReprChars(s, q) ==
    IF s = << >> THEN << >> ELSE ReprChar(Head(s), q) \o ReprChars(Tail(s), q)

\* the string literal of s in the quotes q
ReprQuoted(s, q) == <<q>> \o ReprChars(s, q) \o <<q>>

\* repr() of a string: double quotes when it holds a single quote and no
\* double quote, single quotes otherwise
ReprStr(s) ==
    ReprQuoted(s, IF (\E i \in 1..Len(s) : s[i] = "'")
                      /\ ~(\E i \in 1..Len(s) : s[i] = "U+0022")
                  THEN "U+0022" ELSE "'")

RECURSIVE JoinComma(_)
JoinComma(parts) ==
    IF parts = << >> THEN << >>
    ELSE IF Len(parts) = 1 THEN parts[1]
    ELSE parts[1] \o <<",", " ">> \o JoinComma(Tail(parts))

\* repr() of a loaded value; K names the keys of a mapping
RECURSIVE Repr(_, _)
Repr(v, K) ==
    CASE v.t = "str" -> ReprStr(v.v)
      [] v.t = "num" -> <<"5">>
      [] v.t = "list" ->
            <<"[">> \o JoinComma([i \in 1..Len(v.v) |-> Repr(v.v[i], K)]) \o <<"]">>
      [] v.t = "dict" ->
            LET keys == PresentKeys(v)
            IN  <<"{">>
                \o JoinComma([i \in 1..Len(keys) |->
                        Repr(V_Str(K[keys[i]]), K) \o <<":", " ">>
                            \o Repr(v[keys[i]], K)])
                \o <<"}">>
      [] OTHER -> <<"N", "o", "n", "e">>

\* the text an f-string gives for the value: the string itself, and the
\* repr of every other value
Format(v, K) == IF v.t = "str" THEN v.v ELSE Repr(v, K)

\* the outcome of a block of code: the set it built, or an exception
Built(result) == [exc |-> FALSE, result |-> result]
Raised == [exc |-> TRUE, result |-> {}]

\* what a parser gives its caller: the set returned, whether a warning was
\* printed, and whether an exception left the function
Returned(result, warned) == [result |-> result, warned |-> warned, raised |-> FALSE]
Propagated == [result |-> {}, warned |-> FALSE, raised |-> TRUE]

\* f"{name} <{email}>"
WithEmail(name, email, K) ==
    Format(name, K) \o <<" ", "<">> \o Format(email, K) \o <<">">>

\* result.add(name): a string or a number becomes a member, a list or a
\* mapping is unhashable (TypeError)
AddValue(name) ==
    CASE name.t = "str" -> Built({name.v})
      [] name.t = "num" -> Built({NumberMember})
      [] OTHER -> Raised

\* "if name:" and what follows it: the name with the email when the email is
\* truthy, else the name itself
AddName(name, email, K) ==
    IF Truthy(name)
    THEN IF Truthy(email) THEN Built({WithEmail(name, email, K)}) ELSE AddValue(name)
    ELSE Built({})

(***************************************************************************)
(* core.py: ContributorChecker.parse_citation_cff                          *)
(***************************************************************************)
\* an element of authors resolved with the name field taking precedence
citation_entry_name_first(a) ==
    IF a.t = "dict" THEN
        LET name == IF a.name.t # "nokey" THEN a.name
                    ELSE IF a.given.t # "nokey" /\ a.family.t # "nokey"
                    THEN V_Str(Format(a.given, CitationKeyNames) \o <<" ">>
                                   \o Format(a.family, CitationKeyNames))
                    ELSE V_None
        IN  AddName(name, a.email, CitationKeyNames)
    ELSE IF a.t = "str" THEN Built({a.v})
    ELSE Built({})

\* one element of authors: the identities it adds (none or one), or an
\* exception
CitationEntry(a) ==
    IF a.t = "dict" THEN
        LET name == IF a.given.t # "nokey" /\ a.family.t # "nokey"
                    THEN V_Str(Format(a.given, CitationKeyNames) \o <<" ">>
                                   \o Format(a.family, CitationKeyNames))
                    ELSE IF a.name.t # "nokey" THEN a.name
                    ELSE V_None
        IN  AddName(name, a.email, CitationKeyNames)
    ELSE IF a.t = "str" THEN Built({a.v})
    ELSE Built({})

\* the keys of a person mapping of CITATION.cff
CitationKeys(a) ==
    (IF a.given.t # "nokey"
        THEN {<<"g", "i", "v", "e", "n", "-", "n", "a", "m", "e", "s">>} ELSE {})
    \cup (IF a.family.t # "nokey"
        THEN {<<"f", "a", "m", "i", "l", "y", "-", "n", "a", "m", "e", "s">>} ELSE {})
    \cup (IF a.name.t # "nokey" THEN {<<"n", "a", "m", "e">>} ELSE {})
    \cup (IF a.email.t # "nokey" THEN {<<"e", "m", "a", "i", "l">>} ELSE {})

RECURSIVE CitationLoop(_)
CitationLoop(authors) ==
    IF authors = << >> THEN Built({})
    ELSE LET h == CitationEntry(Head(authors))
         IN  IF h.exc THEN Raised
             ELSE LET r == CitationLoop(Tail(authors))
                  IN  IF r.exc THEN Raised ELSE Built(h.result \cup r.result)

\* the body of the try block, given the value yaml.safe_load returned
CitationBody(loaded) ==
    LET data == IF Truthy(loaded) THEN loaded ELSE EmptyMapping    \* ... or {}
    IN  IF data.t # "dict" THEN Raised                    \* no attribute 'get'
        ELSE LET authors == IF "authors" \in DOMAIN data THEN data.authors
                            ELSE V_NoKey
             IN  CASE authors.t = "nokey" -> Built({})
                   [] authors.t = "list" -> CitationLoop(authors.v)
                   [] authors.t = "str" ->               \* iterates the characters
                        Built({<<authors.v[i]>> : i \in 1..Len(authors.v)})
                   [] authors.t = "dict" ->              \* iterates the keys
                        Built(CitationKeys(authors))
                   [] OTHER -> Raised                     \* not iterable

\* parse_citation_cff without its try/except
parse_citation_cff_unguarded(file) ==
    IF file.kind = "absent" THEN Returned({}, FALSE)
    ELSE IF file.kind = "unparseable" THEN Propagated
    ELSE LET b == CitationBody(file.data)
         IN  IF b.exc THEN Propagated ELSE Returned(b.result, FALSE)

\* file is [kind : {"absent", "unparseable", "loaded"}, data : value]
parse_citation_cff(file) ==
    IF file.kind = "absent" THEN Returned({}, FALSE)
    ELSE IF file.kind = "unparseable" THEN Returned({}, TRUE)
    ELSE LET b == CitationBody(file.data)
         IN  IF b.exc THEN Returned({}, TRUE) ELSE Returned(b.result, FALSE)

(***************************************************************************)
(* core.py: ContributorChecker.parse_codemeta_json                         *)
(***************************************************************************)
\* a.get(key, ''): the empty string for an absent key
GetOrEmpty(v) == IF v.t = "nokey" THEN V_Str(<< >>) ELSE v

\* an element of a field resolved without trimming the joined names
codemeta_entry_no_strip(a) ==
    IF a.t = "dict" THEN
        IF Truthy(a.name) THEN AddName(a.name, a.email, CodemetaKeyNames)
        ELSE LET g == GetOrEmpty(a.given)
                 f == GetOrEmpty(a.family)
             IN  IF g.t # "str" \/ f.t # "str" THEN Raised
                 ELSE LET name == g.v \o <<" ">> \o f.v
                      IN  IF Strip(name) # << >>
                          THEN AddName(V_Str(name), a.email, CodemetaKeyNames)
                          ELSE Built({})
    ELSE IF a.t = "str" THEN Built({a.v})
    ELSE Built({})

\* one element of a field: the identities it adds, or an exception
CodemetaEntry(a) ==
    IF a.t = "dict" THEN
        IF Truthy(a.name) THEN AddName(a.name, a.email, CodemetaKeyNames)
        ELSE LET g == GetOrEmpty(a.given)
                 f == GetOrEmpty(a.family)
             IN  IF g.t # "str" \/ f.t # "str" THEN Raised   \* None + ' '
                 ELSE LET name == Strip(g.v \o <<" ">> \o f.v)
                      IN  AddName(V_Str(name), a.email, CodemetaKeyNames)
    ELSE IF a.t = "str" THEN Built({a.v})
    ELSE Built({})

RECURSIVE CodemetaLoop(_)
CodemetaLoop(authors) ==
    IF authors = << >> THEN Built({})
    ELSE LET h == CodemetaEntry(Head(authors))
         IN  IF h.exc THEN Raised
             ELSE LET r == CodemetaLoop(Tail(authors))
                  IN  IF r.exc THEN Raised ELSE Built(h.result \cup r.result)

\* data.get(field, []), a value that is no list taken as a one-element list
CodemetaField(data, field) ==
    LET authors == IF field \in DOMAIN data THEN data[field] ELSE V_NoKey
    IN  CASE authors.t = "nokey" -> << >>
          [] authors.t = "list" -> authors.v
          [] OTHER -> <<authors>>

\* the body of the try block, given the value json.load returned
CodemetaBody(data) ==
    IF data.t # "dict" THEN Raised                        \* no attribute 'get'
    ELSE CodemetaLoop(CodemetaField(data, "author")
                      \o CodemetaField(data, "contributor")
                      \o CodemetaField(data, "maintainer"))

\* parse_codemeta_json without its try/except
parse_codemeta_json_unguarded(file) ==
    IF file.kind = "absent" THEN Returned({}, FALSE)
    ELSE IF file.kind = "unparseable" THEN Propagated
    ELSE LET b == CodemetaBody(file.data)
         IN  IF b.exc THEN Propagated ELSE Returned(b.result, FALSE)

parse_codemeta_json(file) ==
    IF file.kind = "absent" THEN Returned({}, FALSE)
    ELSE IF file.kind = "unparseable" THEN Returned({}, TRUE)
    ELSE LET b == CodemetaBody(file.data)
         IN  IF b.exc THEN Returned({}, TRUE) ELSE Returned(b.result, FALSE)

(***************************************************************************)
(* core.py: ContributorChecker.check_contributors_detailed                 *)
(***************************************************************************)
WARN == <<"w", "a", "r", "n">>
FAIL == <<"f", "a", "i", "l">>

\* the success flag computed as "mode == 'warn' or nothing is missing"
success_flag_warn_only(current_mode, missing_overall) ==
    current_mode = WARN \/ missing_overall = {}

\* lines 261-271: the success flag from the mode and the overall missing set
success_flag(current_mode, missing_overall) ==
    IF missing_overall # {} THEN current_mode # FAIL ELSE TRUE

\* the overall missing set computed as the union of the two per-file sets
missing_overall_union(contributors, citation_cff, codemeta_json) ==
    find_missing_contributors(contributors, citation_cff)
        \cup find_missing_contributors(contributors, codemeta_json)

\* lines 241-242: the overall missing set
missing_overall_of(contributors, citation_cff, codemeta_json) ==
    find_missing_contributors(contributors, citation_cff \cup codemeta_json)

\* a file without declared contributors reports nobody as missing from it
missing_from_file_lenient(contributors, declared) ==
    IF declared # {} THEN find_missing_contributors(contributors, declared) ELSE {}

\* lines 213-238: the set missing from one file; everybody when the file
\* declares nobody (absent, unparseable or empty)
missing_from_file(contributors, declared) ==
    IF declared # {} THEN find_missing_contributors(contributors, declared)
    ELSE contributors

\* the check with missing_overall taken from the first file alone
check_contributors_detailed_first_file(config, contributors, context_name, citation_file, codemeta_file) ==
    LET citation_cff == parse_citation_cff(citation_file).result
        codemeta_json == parse_codemeta_json(codemeta_file).result
        missing_citation == missing_from_file(contributors, citation_cff)
        missing_overall == missing_citation
    IN  [success |-> success_flag(config.mode, missing_overall),
         results |-> [contributors |-> contributors,
                      citation_cff |-> citation_cff,
                      codemeta_json |-> codemeta_json,
                      missing_citation |-> missing_citation,
                      missing_codemeta |-> missing_from_file(contributors, codemeta_json),
                      missing_overall |-> missing_overall,
                      metadata_combined |-> citation_cff \cup codemeta_json,
                      mode |-> config.mode,
                      context_name |-> context_name]]

\* lines 213-242: sorted() of a set that mixes strings and numbers, and
\* find_missing_contributors on a declared set holding a number, raise
\* TypeError, which check_contributors_detailed does not catch
check_contributors_detailed_raises(contributors, citation_file, codemeta_file) ==
    find_missing_contributors_raises(contributors,
        parse_citation_cff(citation_file).result
            \cup parse_codemeta_json(codemeta_file).result)

\* lines 213-259: the (success, results) pair built from the contributor
\* set and the two declared sets, when nothing is raised
detailed_results(config, contributors, context_name, citation_cff, codemeta_json) ==
    LET missing_overall == missing_overall_of(contributors, citation_cff, codemeta_json)
    IN  [success |-> success_flag(config.mode, missing_overall),
         results |-> [contributors |-> contributors,
                      citation_cff |-> citation_cff,
                      codemeta_json |-> codemeta_json,
                      missing_citation |-> missing_from_file(contributors, citation_cff),
                      missing_codemeta |-> missing_from_file(contributors, codemeta_json),
                      missing_overall |-> missing_overall,
                      metadata_combined |-> citation_cff \cup codemeta_json,
                      mode |-> config.mode,
                      context_name |-> context_name]]

\* lines 208-209 parse the two metadata files; the rest works on their sets
check_contributors_detailed(config, contributors, context_name, citation_file, codemeta_file) ==
    detailed_results(config, contributors, context_name,
                     parse_citation_cff(citation_file).result,
                     parse_codemeta_json(codemeta_file).result)

(***************************************************************************)
(* Configuration: cli.py main, github.py and gitlab.py _load_config        *)
(***************************************************************************)
DEPENDABOT_EMAIL ==
    <<"d", "e", "p", "e", "n", "d", "a", "b", "o", "t", "[", "b", "o", "t", "]", "@", "u", "s", "e", "r", "s", ".", "n", "o", "r", "e", "p", "l", "y", ".", "g", "i", "t", "h", "u", "b", ".", "c", "o", "m">>
DEPENDABOT_LOGIN == <<"d", "e", "p", "e", "n", "d", "a", "b", "o", "t", "[", "b", "o", "t", "]">>
GITLAB_NOREPLY == <<"n", "o", "r", "e", "p", "l", "y", "@", "g", "i", "t", "l", "a", "b", ".", "c", "o", "m">>
GITLAB_BOT == <<"g", "i", "t", "l", "a", "b", "-", "b", "o", "t">>

\* os.environ.get(name, '') for a variable that may be unset (None)
EnvOrEmpty(v) == IF v = None THEN << >> ELSE v

\* s.split(',')
RECURSIVE SplitCommaFrom(_, _, _)
SplitCommaFrom(s, i, cur) ==
    IF i > Len(s) THEN <<cur>>
    ELSE IF s[i] = "," THEN <<cur>> \o SplitCommaFrom(s, i + 1, << >>)
    ELSE SplitCommaFrom(s, i + 1, Append(cur, s[i]))

SplitComma(s) == SplitCommaFrom(s, 1, << >>)

\* [x.strip() for x in parts if x.strip()]
RECURSIVE StripNonEmpty(_)
StripNonEmpty(parts) ==
    IF parts = << >> THEN << >>
    ELSE IF Strip(Head(parts)) # << >>
         THEN <<Strip(Head(parts))>> \o StripNonEmpty(Tail(parts))
         ELSE StripNonEmpty(Tail(parts))

\* default.update(data)
Update(default, data) ==
    [k \in DOMAIN default \cup DOMAIN data |->
        IF k \in DOMAIN data THEN data[k] ELSE default[k]]

\* list overrides that extend the list instead of replacing it
list_overrides_merge(config, emails_var, logins_var) ==
    LET emails == Strip(EnvOrEmpty(emails_var))
        logins == Strip(EnvOrEmpty(logins_var))
    IN  [config EXCEPT
            !.ignore_emails = @ \o StripNonEmpty(SplitComma(emails)),
            !.ignore_logins = @ \o StripNonEmpty(SplitComma(logins))]

\* the two list overrides shared by the GitHub and the GitLab loader
ListOverrides(config, emails_var, logins_var) ==
    LET emails == Strip(EnvOrEmpty(emails_var))
        logins == Strip(EnvOrEmpty(logins_var))
        c1 == IF emails # << >>
              THEN [config EXCEPT !.ignore_emails = StripNonEmpty(SplitComma(emails))]
              ELSE config
    IN  IF logins # << >>
        THEN [c1 EXCEPT !.ignore_logins = StripNonEmpty(SplitComma(logins))]
        ELSE c1

\* core.py _get_default_config, github.py _load_config: the defaults
GithubDefault ==
    [mode |-> WARN, ignore_emails |-> <<DEPENDABOT_EMAIL>>,
     ignore_logins |-> <<DEPENDABOT_LOGIN>>]

\* github.py _load_config. cfg_file is [kind : {"absent", "unparseable",
\* "loaded"}, data : mapping]; env gives ACTION_MODE, ACTION_IGNORE_EMAILS and
\* ACTION_IGNORE_LOGINS, each a string or None when unset
github_load_config(cfg_file, env) ==
    LET c0 == IF cfg_file.kind = "loaded" THEN Update(GithubDefault, cfg_file.data)
              ELSE GithubDefault
        c1 == IF env.ACTION_MODE # None /\ env.ACTION_MODE # << >>
              THEN [c0 EXCEPT !.mode = env.ACTION_MODE]
              ELSE c0
    IN  ListOverrides(c1, env.ACTION_IGNORE_EMAILS, env.ACTION_IGNORE_LOGINS)

GitlabDefault ==
    [mode |-> WARN, ignore_emails |-> <<DEPENDABOT_EMAIL, GITLAB_NOREPLY>>,
     ignore_logins |-> <<DEPENDABOT_LOGIN, GITLAB_BOT>>]

\* the GitLab loader taking MODE as it is written
gitlab_load_config_exact_mode(env) ==
    LET mode == EnvOrEmpty(env.MODE)
        c1 == IF mode \in {WARN, FAIL} THEN [GitlabDefault EXCEPT !.mode = mode]
              ELSE GitlabDefault
    IN  ListOverrides(c1, env.IGNORE_EMAILS, env.IGNORE_LOGINS)

\* gitlab.py _load_config. env gives MODE, IGNORE_EMAILS and IGNORE_LOGINS
gitlab_load_config(env) ==
    LET mode == Lower(Strip(EnvOrEmpty(env.MODE)))
        c1 == IF mode \in {WARN, FAIL} THEN [GitlabDefault EXCEPT !.mode = mode]
              ELSE GitlabDefault
    IN  ListOverrides(c1, env.IGNORE_EMAILS, env.IGNORE_LOGINS)

\* None where a list of strings is expected
NoList == <<None>>

\* cli.py main, lines 86-90. args gives mode, ignore_emails and ignore_logins,
\* a list being None when its flag was not used
cli_config(args) ==
    [mode |-> args.mode,
     ignore_emails |-> IF args.ignore_emails = NoList THEN << >> ELSE args.ignore_emails,
     ignore_logins |-> IF args.ignore_logins = NoList THEN << >> ELSE args.ignore_logins]

(***************************************************************************)
(* core.py: create_comment_body                                            *)
(***************************************************************************)
\* a < b for Python strings: lexicographic on code points
RECURSIVE StrLess(_, _)
StrLess(a, b) ==
    IF b = << >> THEN FALSE
    ELSE IF a = << >> THEN TRUE
    ELSE IF Head(a) = Head(b) THEN StrLess(Tail(a), Tail(b))
    ELSE CodePoint(Head(a)) < CodePoint(Head(b))

\* sorted(missing)
RECURSIVE Sorted(_)
Sorted(S) ==
    IF S = {} THEN << >>
    ELSE LET least == CHOOSE x \in S : \A y \in S \ {x} : StrLess(x, y)
         IN  <<least>> \o Sorted(S \ {least})

\* the missing identities listed from the largest to the smallest
RECURSIVE SortedDescending(_)
SortedDescending(S) ==
    IF S = {} THEN << >>
    ELSE LET greatest == CHOOSE x \in S : \A y \in S \ {x} : StrLess(y, x)
         IN  <<greatest>> \o SortedDescending(S \ {greatest})

\* the bullets '- m', one per item, joined by newlines
RECURSIVE BulletLines(_)
BulletLines(items) ==
    IF items = << >> THEN << >>
    ELSE IF Len(items) = 1 THEN <<"-", " ">> \o Head(items)
    ELSE <<"-", " ">> \o Head(items) \o <<"\n">> \o BulletLines(Tail(items))

\* the first line of the body; the warning sign is U+26A0 U+FE0F
BodyTitle ==
    <<"U+26A0", "U+FE0F", " ", "*", "*", "M", "e", "t", "a", "d", "a", "t",
      "a", " ", "c", "h", "e", "c", "k", ":", " ", "c", "o", "n", "t", "r",
      "i", "b", "u", "t", "o", "r", "s", " ", "m", "i", "s", "s", "i", "n",
      "g", " ", "f", "r", "o", "m", " ", "c", "i", "t", "a", "t", "i", "o",
      "n", " ", "f", "i", "l", "e", "s", "*", "*", "\n", "\n">>

BodyBeforePlatform ==
    <<"T", "h", "e", " ", "f", "o", "l", "l", "o", "w", "i", "n", "g", " ",
      "c", "o", "n", "t", "r", "i", "b", "u", "t", "o", "r", "s", " ", "f",
      "r", "o", "m", " ", "t", "h", "i", "s", " ">>

BodyAfterPlatform ==
    <<" ", "a", "r", "e", " ", "n", "o", "t", " ", "l", "i", "s", "t", "e",
      "d", " ", "i", "n", " ", "t", "h", "e", " ", "m", "e", "t", "a", "d",
      "a", "t", "a", " ", "f", "i", "l", "e", "s", ":", "\n", "\n">>

BodyNextSteps ==
    <<"N", "e", "x", "t", " ", "s", "t", "e", "p", "s", ":", "\n", "-", " ",
      "A", "d", "d", " ", "t", "h", "e", "m", " ", "t", "o", " ", "U+0060", "C",
      "I", "T", "A", "T", "I", "O", "N", ".", "c", "f", "f", "U+0060", " ", "/",
      " ", "U+0060", "c", "o", "d", "e", "m", "e", "t", "a", ".", "j", "s", "o",
      "n", "U+0060", " ", "o", "r", " ", "u", "p", "d", "a", "t", "e", " ", "U+0060",
      ".", "m", "a", "i", "l", "m", "a", "p", "U+0060", " ", "i", "f", " ", "t",
      "h", "e", "s", "e", " ", "a", "r", "e", " ", "a", "l", "i", "a", "s",
      "e", "s", ".", "\n">>

\* the body with its bullets in descending order
create_comment_body_descending(missing, platform) ==
    BodyTitle \o BodyBeforePlatform \o platform \o BodyAfterPlatform
        \o BulletLines(SortedDescending(missing)) \o <<"\n", "\n">> \o BodyNextSteps

\* create_comment_body(missing, platform)
create_comment_body(missing, platform) ==
    BodyTitle \o BodyBeforePlatform \o platform \o BodyAfterPlatform
        \o BulletLines(Sorted(missing)) \o <<"\n", "\n">> \o BodyNextSteps

(***************************************************************************)
(* github.py post_pr_comment, gitlab.py post_mr_comment                    *)
(***************************************************************************)
\* What the HTTP client does with the one request: "no_requests" when the
\* requests module could not be imported, "created" for a success status,
\* "http_error" for an error status (raise_for_status raises an HTTPError
\* carrying the response), "conn_error" for a RequestException whose
\* response attribute is None, "other_exc" for an exception with no
\* response attribute
NetOutcomes == {"no_requests", "created", "http_error", "conn_error", "other_exc"}

\* posting with the except handler never touching e.response
post_comment_soft(token, repo, number, net) ==
    IF net = "no_requests" \/ Falsy(token) \/ Falsy(repo) \/ Falsy(number)
    THEN [sent |-> FALSE, posted |-> FALSE, raised |-> "none"]
    ELSE [sent |-> TRUE, posted |-> (net = "created"), raised |-> "none"]

\* post_pr_comment / post_mr_comment: sent tells whether the request was
\* made, posted is the return value, raised the exception leaving the call
post_comment(token, repo, number, net) ==
    IF net = "no_requests" THEN [sent |-> FALSE, posted |-> FALSE, raised |-> "none"]
    ELSE IF Falsy(token) \/ Falsy(repo) \/ Falsy(number)
    THEN [sent |-> FALSE, posted |-> FALSE, raised |-> "none"]
    ELSE CASE net = "created" -> [sent |-> TRUE, posted |-> TRUE, raised |-> "none"]
           [] net = "http_error" -> [sent |-> TRUE, posted |-> FALSE, raised |-> "none"]
           [] net = "other_exc" -> [sent |-> TRUE, posted |-> FALSE, raised |-> "none"]
           \* hasattr(e, 'response') holds and e.response is None
           [] net = "conn_error" ->
                  [sent |-> TRUE, posted |-> FALSE, raised |-> "AttributeError"]

\* a comment wanted only when the check fails
comment_needed_on_failure(res, ok) == res.missing_overall # {} /\ ~ok

\* github.py line 125, gitlab.py line 119: if results['missing_overall']
comment_needed(res, ok) == res.missing_overall # {}

\* a mode test looking at the two SHAs only
pr_mode_shas_only(run) == ~Falsy(run.base) /\ ~Falsy(run.head)

\* github.py main line 144, gitlab.py main: bool(base and head and number)
pr_mode(run) == ~Falsy(run.base) /\ ~Falsy(run.head) /\ ~Falsy(run.number)

\* the branch selection running the all-history check when one SHA is missing
cli_branch_lenient(run) ==
    IF ~Falsy(run.base) /\ ~Falsy(run.head) THEN "range" ELSE "all"

\* cli.py main lines 100-114: which branch the two SHA arguments select
cli_branch(run) ==
    IF ~Falsy(run.base) /\ ~Falsy(run.head) THEN "range"
    ELSE IF ~Falsy(run.base) \/ ~Falsy(run.head) THEN "incomplete"
    ELSE "all"

\* cli.py main lines 118-121
cli_exit_code(mode, success) == IF mode = FAIL /\ ~success THEN 1 ELSE 0

\* a wrapper reporting a failed check with the code of a usage error
ci_exit_code_usage(ok) == IF ok THEN 0 ELSE 2

\* github.py main line 154, gitlab.py main: sys.exit(0 if ok else 1)
ci_exit_code(ok) == IF ok THEN 0 ELSE 1

(***************************************************************************)
(* Identities: "Name" or "Name <email>"                                    *)
(***************************************************************************)
NoEmail == <<"NoEmail">>

\* the identity string of a name and an optional email
Identity(name, email) ==
    IF email = NoEmail THEN name ELSE name \o <<" ", "<">> \o email \o <<">">>

\* names and emails of the identities enumerated in SpecMissing
MissingNames ==
    { <<"A", "l", " ", "B", "o">>,          \* "Al Bo"
      <<"a", "l", " ", " ", "b", "o">>,     \* "al  bo"
      <<"A", "l", "b", "o">>,               \* "Albo"
      <<"C", "y">> }                        \* "Cy"

MissingEmails == { NoEmail, <<"a", "@", "x">>, <<"b", "@", "x">> }

\* the identities enumerated in SpecMissing: strings, and the number a
\* metadata file can declare as a name
MissingIds ==
    [name : MissingNames, email : MissingEmails]
        \cup {[name |-> NumberMember, email |-> NoEmail]}

IdString(id) == Identity(id.name, id.email)

SetsUpTo(S, n) == {X \in SUBSET S : Cardinality(X) <= n}

(***************************************************************************)
(* State                                                                   *)
(***************************************************************************)
VARIABLES
    nIn,      \* SpecNorm: the string given to normalize_contributor_name
    nOut,     \* SpecNorm: its normalized key
    nTwice,   \* SpecNorm: the normalized key of the normalized key
    nStep,    \* SpecNorm: number of applications made (0, 1, 2)
    mActual,  \* SpecMissing: the actual identities (name, email)
    mDeclared,\* SpecMissing: the declared identities (name, email)
    mMissing, \* SpecMissing: the set find_missing_contributors returned
    mStep,    \* SpecMissing: 0 before the call, 1 after
    cConfig,  \* SpecCollect: self.config of the ContributorChecker
    cGit,     \* SpecCollect: exit status and stdout of the git log command
    cShas,    \* SpecCollect: <<base_sha, head_sha>> given to the range collector
    cResult,  \* SpecCollect: the set the collector returned
    cOp,      \* SpecCollect: "none", then "range" or "all": the collector called
    pFile,    \* SpecParse: the metadata file on disk
    pOut,     \* SpecParse: what the parser gave its caller
    pOp,      \* SpecParse: "none", then "citation" or "codemeta": the parser called
    pc,       \* Spec: position of the entry point: "start", "constructed",
              \*       "posting", "checked", "failed", "exited"
    entry,    \* Spec: the entry point running: "cli", "github" or "gitlab"
    effConfig,\* Spec: the configuration handed to the ContributorChecker
    run,      \* Spec: base and head SHA, request number, token and repository
    gitLog,   \* Spec: what the git log command does in this repository
    citFile,  \* Spec: CITATION.cff on disk
    cmFile,   \* Spec: codemeta.json on disk
    success,  \* Spec: the success flag check_contributors_detailed returned
    results,  \* Spec: the results dictionary it returned
    post,     \* Spec: the calls of post_pr_comment / post_mr_comment made so far
    raised,   \* Spec: the exception travelling to the entry point, or "none"
    exitCode, \* Spec: the exit code of the process
    kIn,      \* SpecConfig: the inputs of a configuration loader
    kOut,     \* SpecConfig: the configuration it built
    kOp,      \* SpecConfig: "none", then "cli", "github" or "gitlab"
    bMissing, \* SpecComment: the set of missing identities to report
    bPR,      \* SpecComment: the comment body rendered for GitHub
    bMR,      \* SpecComment: the comment body rendered for GitLab
    bOp       \* SpecComment: the platforms rendered so far

normVars == <<nIn, nOut, nTwice, nStep>>
missVars == <<mActual, mDeclared, mMissing, mStep>>
collVars == <<cConfig, cGit, cShas, cResult, cOp>>
parseVars == <<pFile, pOut, pOp>>
mainVars ==
    <<pc, entry, effConfig, run, gitLog, citFile, cmFile, success, results, post,
      raised, exitCode>>
configVars == <<kIn, kOut, kOp>>
commentVars == <<bMissing, bPR, bMR, bOp>>
auxVars == <<configVars, commentVars>>
vars == <<normVars, missVars, collVars, parseVars, mainVars, auxVars>>

(***************************************************************************)
(* SpecNorm: normalize_contributor_name applied to every bounded string    *)
(***************************************************************************)
IdleNorm == nIn = None /\ nOut = None /\ nTwice = None /\ nStep = 0
IdleMiss == mActual = {} /\ mDeclared = {} /\ mMissing = None /\ mStep = 0

IdleColl ==
    cConfig = None /\ cGit = None /\ cShas = None /\ cResult = None /\ cOp = "none"

IdleParse == pFile = None /\ pOut = None /\ pOp = "none"

IdleConfig == kIn = None /\ kOut = None /\ kOp = "none"
IdleComment == bMissing = None /\ bPR = None /\ bMR = None /\ bOp = {}
IdleAux == IdleConfig /\ IdleComment

IdleMain ==
    /\ pc = "idle" /\ entry = None /\ effConfig = None /\ run = None
    /\ gitLog = None
    /\ citFile = None /\ cmFile = None /\ success = None /\ results = None
    /\ post = None /\ raised = "none" /\ exitCode = None

\* strings with whitespace other than the space
NormWhitespaceStrings ==
    { <<"A", "l", " ", "B", "o", "\n">>,
      <<"\t", "A", "\f", "\r", "B", "<", "a", "\n", ">", "U+00A0">>,
      <<"U+2028", "a", "U+000B", "U+3000", "A", "U+001F">> }

\* strings with letters outside ASCII: "ÉRIC Blanc <e@x>", a capital sigma
\* before a full stop and a cased letter, one that ends the name once the
\* span is removed, and the capital I with dot above
NormUnicodeStrings ==
    { <<"U+00C9", "R", "I", "C", " ", "B", "l", "a", "n", "c", " ", "<", "e", "@", "x", ">">>,
      <<"U+039D", "U+0399", "U+039A", "U+039F", "U+03A3", ".", "U+03A0">>,
      <<"U+0391", "U+03A3", " ", "<", "U+03A3", ">">>,
      <<"U+0130", "L">> }

InitNorm ==
    /\ nIn \in StringsUpTo(NormAlphabet, MaxLen) \cup NormWhitespaceStrings
                \cup NormUnicodeStrings
    /\ nOut = None
    /\ nTwice = None
    /\ nStep = 0
    /\ IdleMiss /\ IdleColl /\ IdleParse /\ IdleMain
    /\ IdleAux

Normalize ==
    /\ nStep = 0
    /\ nOut' = normalize_contributor_name(nIn)
    /\ nStep' = 1
    /\ UNCHANGED <<nIn, nTwice, missVars, collVars, parseVars, mainVars, auxVars>>

NormalizeAgain ==
    /\ nStep = 1
    /\ nTwice' = normalize_contributor_name(nOut)
    /\ nStep' = 2
    /\ UNCHANGED <<nIn, nOut, missVars, collVars, parseVars, mainVars, auxVars>>

NextNorm == Normalize \/ NormalizeAgain

SpecNorm == InitNorm /\ [][NextNorm]_vars

(***************************************************************************)
(* SpecMissing: find_missing_contributors applied to bounded identity sets *)
(***************************************************************************)
\* pairs <<actual, declared>> whose names hold letters outside ASCII:
\* "ÉRIC Blanc <a@x>" against "éric blanc", "josé" against "JOSE", and a name
\* in capitals whose sigma is followed by a full stop against the same name
\* in small letters with a final sigma
MissingUnicodeCases ==
    { << {[name |-> <<"U+00C9", "R", "I", "C", " ", "B", "l", "a", "n", "c">>,
           email |-> <<"a", "@", "x">>]},
         {[name |-> <<"U+00E9", "r", "i", "c", " ", "b", "l", "a", "n", "c">>,
           email |-> NoEmail]} >>,
      << {[name |-> <<"j", "o", "s", "U+00E9">>, email |-> NoEmail]},
         {[name |-> <<"J", "O", "S", "E">>, email |-> NoEmail]} >>,
      << {[name |-> <<"U+039D", "U+0399", "U+039A", "U+039F", "U+03A3", ".", "U+03A0">>,
           email |-> NoEmail]},
         {[name |-> <<"U+03BD", "U+03B9", "U+03BA", "U+03BF", "U+03C2", ".", "U+03C0">>,
           email |-> NoEmail]} >> }

InitMissing ==
    /\ \/ /\ mActual \in SetsUpTo(MissingIds, MaxIds)
          /\ mDeclared \in SetsUpTo(MissingIds, MaxIds)
       \/ \E case \in MissingUnicodeCases : mActual = case[1] /\ mDeclared = case[2]
    /\ mMissing = None
    /\ mStep = 0
    /\ IdleNorm /\ IdleColl /\ IdleParse /\ IdleMain
    /\ IdleAux

\* find_missing_contributors returns: the dict is one of those the
\* comprehension can build
FindMissing ==
    /\ mStep = 0
    /\ LET contributors == {IdString(a) : a \in mActual}
           metadata_contribs == {IdString(d) : d \in mDeclared}
       IN  /\ ~find_missing_contributors_raises(contributors, metadata_contribs)
           /\ \E meta_norm \in MetaNorm(metadata_contribs) :
                  mMissing' = MissingLoop(contributors, meta_norm)
    /\ mStep' = 1
    /\ UNCHANGED <<mActual, mDeclared, normVars, collVars, parseVars, mainVars, auxVars>>

\* find_missing_contributors raises TypeError (mStep = 2)
FindMissingRaises ==
    /\ mStep = 0
    /\ find_missing_contributors_raises({IdString(a) : a \in mActual},
                                        {IdString(d) : d \in mDeclared})
    /\ mStep' = 2
    /\ UNCHANGED <<mActual, mDeclared, mMissing, normVars, collVars, parseVars,
                   mainVars, auxVars>>

NextMissing == FindMissing \/ FindMissingRaises

SpecMissing == InitMissing /\ [][NextMissing]_vars

(***************************************************************************)
(* SpecCollect: the two collectors applied to bounded git log outputs      *)
(***************************************************************************)
\* the lines git log may print (format '%aN <%aE>'), as the mocks of the
\* tests give them
CollectLinesUniverse ==
    { <<"A", "l", " ", "<", "a", "@", "x", ">">>,                \* "Al <a@x>"
      <<" ", "A", "L", " ", " ", "<", "b", "@", "x", ">", "\t">>, \* " AL  <b@x>\t"
      <<"B", "o", "t", " ", "<", "c", "@", "x", ">">>,           \* "Bot <c@x>"
      <<"C", "y", " ", "<", "b", "o", "@", "t", ">">>,           \* "Cy <bo@t>"
      <<"D", "i", " ", "<", "a", "@", "x", "y", ">">>,           \* "Di <a@xy>"
      <<"c", "i", " ", "<", "d", "@", "x", ">">>,                \* "ci <d@x>"
      <<"A", "l">>,                                              \* "Al"
      <<" ", "\t">>,                                             \* " \t"
      << >> }                                                    \* ""

\* the ignore lists of the configurations enumerated in SpecCollect
CollectIgnoreEmails ==
    { << >>, << <<"a", "@", "x">> >>, << <<"A", "@", "X">>, <<"d", "@", "x">> >> }

CollectIgnoreLogins ==
    { << >>, << <<"C", "I">> >>, << <<"a", "l", " ", "<">>, <<"D", "i">> >> }

CollectConfigs ==
    [mode : {WARN}, ignore_emails : CollectIgnoreEmails,
     ignore_logins : CollectIgnoreLogins]

\* the stdout of git log: every line followed by a newline
RECURSIVE Stdout(_)
Stdout(lines) ==
    IF lines = << >> THEN << >>
    ELSE Head(lines) \o <<"\n">> \o Stdout(Tail(lines))

SHA1 == <<"a", "b", "c", "1">>
SHA2 == <<"d", "e", "f", "4">>

\* logs in which an author name holds a form feed or a line separator, and a
\* log whose last line has no newline
CollectRawLogs ==
    { <<"A", "l", "\f", " ", "A", "L", " ", " ", "<", "b", "@", "x", ">", "\n">>,
      <<"c", "i", " ", "<", "d", "@", "x", ">", "U+2028", "A", "l", "U+001F", "\n",
        "A", "l", " ", "<", "a", "@", "x", ">">> }

\* ignore_logins: ['ÉRIC'] and a log with "éric <e@x>", "Al <a@x>" and
\* "ROBOT" in full-width letters
CollectUnicodeConfig ==
    [mode |-> WARN, ignore_emails |-> << >>,
     ignore_logins |-> << <<"U+00C9", "R", "I", "C">> >>]

CollectUnicodeLog ==
    Stdout(<< <<"U+00E9", "r", "i", "c", " ", "<", "e", "@", "x", ">">>,
              <<"A", "l", " ", "<", "a", "@", "x", ">">>,
              <<"U+FF32", "U+FF2F", "U+FF22", "U+FF2F", "U+FF34">> >>)

InitCollect ==
    /\ \/ /\ cConfig \in CollectConfigs
          /\ \/ \E lines \in StringsUpTo(CollectLinesUniverse, MaxLines) :
                   \/ cGit = [status |-> "ok", stdout |-> Stdout(lines)]
                   \/ lines = << >> /\ cGit = [status |-> "nonzero", stdout |-> << >>]
             \/ \E out \in CollectRawLogs : cGit = [status |-> "ok", stdout |-> out]
       \/ /\ cConfig \in {CollectUnicodeConfig} \cup CollectConfigs
          /\ cGit = [status |-> "ok", stdout |-> CollectUnicodeLog]
    /\ cShas \in {<<SHA1, SHA2>>, <<None, SHA2>>, <<SHA1, << >> >>}
    /\ cResult = None
    /\ cOp = "none"
    /\ IdleNorm /\ IdleMiss /\ IdleParse /\ IdleMain
    /\ IdleAux

CollectRange ==
    /\ cOp = "none"
    /\ cResult' = get_contributors_from_range(cConfig, cGit, cShas[1], cShas[2])
    /\ cOp' = "range"
    /\ UNCHANGED <<cConfig, cGit, cShas, normVars, missVars, parseVars, mainVars, auxVars>>

CollectAll ==
    /\ cOp = "none"
    /\ cResult' = get_all_contributors(cConfig, cGit)
    /\ cOp' = "all"
    /\ UNCHANGED <<cConfig, cGit, cShas, normVars, missVars, parseVars, mainVars, auxVars>>

NextCollect == CollectRange \/ CollectAll

SpecCollect == InitCollect /\ [][NextCollect]_vars

(***************************************************************************)
(* SpecParse: the two extractors applied to bounded metadata files         *)
(***************************************************************************)
S_Al == <<"A", "l">>
S_Bo == <<"B", "o">>
S_Cy == <<"C", "y">>
S_Bot == <<"B", "o", "t">>
S_Mail == <<"a", "@", "x">>
S_DiMail == <<"D", "i", " ", "<", "d", "@", "x", ">">>

\* the entries a list of persons is made of
ParseEntries ==
    { V_Dict(V_Str(S_Al), V_Str(S_Bo), V_NoKey, V_Str(S_Mail)),
      V_Dict(V_Str(S_Al), V_Str(S_Bo), V_Str(S_Cy), V_NoKey),
      V_Dict(V_NoKey, V_NoKey, V_Str(S_Cy), V_Str(S_Mail)),
      V_Dict(V_NoKey, V_NoKey, V_Str(S_Bot), V_NoKey),
      V_Dict(V_Str(S_Al), V_NoKey, V_NoKey, V_NoKey),
      V_Dict(V_NoKey, V_Str(S_Bo), V_NoKey, V_Str(S_Mail)),
      V_Dict(V_NoKey, V_NoKey, V_NoKey, V_Str(S_Mail)),
      V_Dict(V_None, V_Str(S_Bo), V_NoKey, V_NoKey),
      V_Dict(V_Str(S_Al), V_None, V_None, V_None),
      V_Dict(V_Str(<< >>), V_Str(<< >>), V_Str(<< >>), V_Str(<< >>)),
      V_Dict(V_Str(S_Al), V_Str(S_Bo), V_Str(<< >>), V_None),
      V_Dict(V_NoKey, V_NoKey, V_None, V_NoKey),
      V_Dict(V_None, V_None, V_NoKey, V_NoKey),
      V_Dict(V_NoKey, V_NoKey, V_Num, V_NoKey),
      V_Dict(V_NoKey, V_NoKey, V_List(<<V_Str(S_Al)>>), V_NoKey),
      V_Dict(V_NoKey, V_NoKey, V_Str(S_Cy), V_List(<<V_Str(S_Mail), V_Num>>)),
      V_Dict(V_NoKey, V_NoKey, EmptyMapping, V_Str(S_Mail)),
      V_Dict(V_List(<< >>), V_Str(S_Bo), V_NoKey, V_NoKey),
      V_Dict(V_NoKey, V_NoKey, V_Str(S_Cy),
             V_DictInOrder(V_NoKey, V_NoKey, V_Str(<<"n">>), V_Str(<<"e">>),
                           <<"email", "name", "given", "family">>)),
      V_Dict(V_NoKey, V_NoKey, V_Str(S_Cy),
             V_List(<<V_Str(<<"a", "U+007F", "U+00C9", "U+00A0">>)>>)),
      V_Str(S_DiMail),
      V_Str(<< >>),
      V_Num,
      V_None }

ParseLists == StringsUpTo(ParseEntries, MaxRecords)

\* the values of the authors key of CITATION.cff
CitationAuthors ==
    {V_NoKey, V_None, V_Num, V_Str(S_Al), V_Str(<< >>),
     V_Dict(V_NoKey, V_NoKey, V_Str(S_Cy), V_NoKey)}
    \cup {V_List(l) : l \in ParseLists}

CitationFiles ==
    { [kind |-> "absent", data |-> V_None],
      [kind |-> "unparseable", data |-> V_None],
      [kind |-> "loaded", data |-> V_None],
      [kind |-> "loaded", data |-> V_Str(S_Al)],
      [kind |-> "loaded", data |-> V_List(<< >>)],
      [kind |-> "loaded", data |-> V_List(<<V_Str(S_Al)>>)] }
    \cup {[kind |-> "loaded", data |-> CitationData(a)] : a \in CitationAuthors}

\* the values of the author key of codemeta.json; contributor and maintainer
\* take fewer values
CodemetaAuthors ==
    {V_NoKey, V_None, V_Num} \cup ParseEntries \cup {V_List(l) : l \in ParseLists}

CodemetaOthers ==
    {V_NoKey, V_Dict(V_NoKey, V_NoKey, V_Str(S_Cy), V_NoKey),
     V_List(<<V_Str(S_Bo), V_Dict(V_Str(S_Al), V_Str(S_Bo), V_NoKey, V_NoKey)>>)}

CodemetaFiles ==
    { [kind |-> "absent", data |-> V_None],
      [kind |-> "unparseable", data |-> V_None],
      [kind |-> "loaded", data |-> V_None],
      [kind |-> "loaded", data |-> V_List(<<V_Str(S_Al)>>)],
      [kind |-> "loaded", data |-> EmptyMapping] }
    \cup {[kind |-> "loaded", data |-> CodemetaData(a, c, V_NoKey)] :
              a \in CodemetaAuthors, c \in CodemetaOthers}
    \cup {[kind |-> "loaded", data |-> CodemetaData(V_NoKey, V_NoKey, m)] :
              m \in CodemetaOthers}

InitParse ==
    /\ pFile \in CitationFiles \cup CodemetaFiles
    /\ pOut = None
    /\ pOp = "none"
    /\ IdleNorm /\ IdleMiss /\ IdleColl /\ IdleMain
    /\ IdleAux

ParseCitation ==
    /\ pOp = "none"
    /\ pFile \in CitationFiles
    /\ pOut' = parse_citation_cff(pFile)
    /\ pOp' = "citation"
    /\ UNCHANGED <<pFile, normVars, missVars, collVars, mainVars, auxVars>>

ParseCodemeta ==
    /\ pOp = "none"
    /\ pFile \in CodemetaFiles
    /\ pOut' = parse_codemeta_json(pFile)
    /\ pOp' = "codemeta"
    /\ UNCHANGED <<pFile, normVars, missVars, collVars, mainVars, auxVars>>

NextParse == ParseCitation \/ ParseCodemeta

SpecParse == InitParse /\ [][NextParse]_vars

(***************************************************************************)
(* Spec: one run of an entry point (cli.main, github.main, gitlab.main)    *)
(* over a repository: its git log, CITATION.cff and codemeta.json          *)
(***************************************************************************)
S_AL == <<"A", "L">>
S_al == <<"a", "l">>
S_cy == <<"c", "y">>
S_CMail == <<"c", "@", "x">>

\* the raw lines git log prints in the runs of Spec
MainLogLines ==
    { <<"A", "l", " ", "<", "a", "@", "x", ">">>,   \* "Al <a@x>"
      <<"B", "o", "t", " ", "<", "c", "@", "x", ">">>,  \* "Bot <c@x>"
      <<"C", "y", " ", "<", "c", "@", "x", ">">>,   \* "Cy <c@x>"
      <<" ", "A", "L", " ", " ", "<", "b", "@", "x", ">">> }  \* " AL  <b@x>"

\* git log succeeds, exits non-zero, or cannot be started at all (OSError)
MainGits ==
    {[status |-> "ok", stdout |-> Stdout(lines)] :
         lines \in StringsUpTo(MainLogLines, MaxLog)}
    \cup {[status |-> "nonzero", stdout |-> << >>],
          [status |-> "oserror", stdout |-> << >>]}

MainCitationFiles ==
    { [kind |-> "absent", data |-> V_None],
      [kind |-> "unparseable", data |-> V_None],
      [kind |-> "loaded", data |-> V_List(<<V_Str(S_Al)>>)],
      [kind |-> "loaded", data |-> CitationData(V_List(
          <<V_Dict(V_NoKey, V_NoKey, V_Str(S_AL), V_Str(S_Mail))>>))],
      [kind |-> "loaded", data |-> CitationData(V_List(
          <<V_Dict(V_NoKey, V_NoKey, V_Str(S_AL), V_Str(S_Mail)), V_Str(S_Cy)>>))],
      [kind |-> "loaded", data |-> CitationData(V_List(
          <<V_Dict(V_NoKey, V_NoKey, V_Num, V_NoKey)>>))] }

MainCodemetaFiles ==
    { [kind |-> "absent", data |-> V_None],
      [kind |-> "unparseable", data |-> V_None],
      [kind |-> "loaded", data |->
          CodemetaData(V_Dict(V_NoKey, V_NoKey, V_Str(S_Bo), V_NoKey),
                       V_NoKey, V_NoKey)],
      [kind |-> "loaded", data |->
          CodemetaData(V_List(<<V_Dict(V_NoKey, V_NoKey, V_Str(S_Bot), V_NoKey)>>),
                       V_Str(S_al), V_NoKey)] }

\* --mode as typed on the command line (None: the flag is not used)
CliModes == {None, WARN, FAIL, <<"F", "A", "I", "L">>}

\* --ignore-emails and --ignore-logins as collected by argparse
CliIgnores == { <<NoList, NoList>>, << <<S_CMail>>, <<S_cy>> >> }

\* --from-sha and --to-sha
CliShas == { <<SHA1, SHA2>>, <<SHA1, None>>, <<None, None>> }

\* .github/contrib-metadata-check.yml and the ACTION_* variables
GithubInputs ==
    { [file |-> [kind |-> "absent", data |-> EmptyDict],
       env |-> [ACTION_MODE |-> None, ACTION_IGNORE_EMAILS |-> None,
                ACTION_IGNORE_LOGINS |-> None]],
      [file |-> [kind |-> "loaded", data |-> [mode |-> FAIL]],
       env |-> [ACTION_MODE |-> None, ACTION_IGNORE_EMAILS |-> None,
                ACTION_IGNORE_LOGINS |-> None]],
      [file |-> [kind |-> "loaded",
                 data |-> [mode |-> FAIL, ignore_emails |-> << >>,
                           ignore_logins |-> << >>]],
       env |-> [ACTION_MODE |-> WARN, ACTION_IGNORE_EMAILS |-> None,
                ACTION_IGNORE_LOGINS |-> None]],
      [file |-> [kind |-> "absent", data |-> EmptyDict],
       env |-> [ACTION_MODE |-> <<"F", "A", "I", "L">>,
                ACTION_IGNORE_EMAILS |-> <<"c", "@", "x", ",", " ", ",", "d", "@", "x">>,
                ACTION_IGNORE_LOGINS |-> <<" ", "c", "y", " ">>]],
      [file |-> [kind |-> "unparseable", data |-> EmptyDict],
       env |-> [ACTION_MODE |-> << >>, ACTION_IGNORE_EMAILS |-> None,
                ACTION_IGNORE_LOGINS |-> <<" ", ",", " ">>]],
      [file |-> [kind |-> "loaded", data |-> [ignore_logins |-> <<S_cy>>]],
       env |-> [ACTION_MODE |-> FAIL, ACTION_IGNORE_EMAILS |-> None,
                ACTION_IGNORE_LOGINS |-> None]] }

\* the MODE, IGNORE_EMAILS and IGNORE_LOGINS variables of a GitLab job
GitlabInputs ==
    { [MODE |-> None, IGNORE_EMAILS |-> None, IGNORE_LOGINS |-> None],
      [MODE |-> <<"\t", "F", "a", "i", "l", "\n">>, IGNORE_EMAILS |-> S_CMail,
       IGNORE_LOGINS |-> None],
      [MODE |-> <<"o", "n">>, IGNORE_EMAILS |-> None, IGNORE_LOGINS |-> S_cy],
      [MODE |-> FAIL, IGNORE_EMAILS |-> None, IGNORE_LOGINS |-> None] }

\* base SHA, head SHA, request number, token and repository of a CI job
CiRuns ==
    { [base |-> SHA1, head |-> SHA2, number |-> <<"7">>, token |-> <<"t">>,
       repo |-> <<"r">>],
      [base |-> SHA1, head |-> SHA2, number |-> <<"7">>, token |-> None,
       repo |-> <<"r">>],
      [base |-> SHA1, head |-> SHA2, number |-> None, token |-> <<"t">>,
       repo |-> <<"r">>],
      [base |-> << >>, head |-> SHA2, number |-> <<"7">>, token |-> <<"t">>,
       repo |-> <<"r">>] }

Init ==
    /\ pc = "start"
    /\ entry = None /\ effConfig = None /\ run = None
    /\ gitLog \in MainGits
    /\ citFile \in MainCitationFiles
    /\ cmFile \in MainCodemetaFiles
    /\ success = None /\ results = EmptyDict /\ post = << >>
    /\ raised = "none"
    /\ exitCode = None
    /\ IdleNorm /\ IdleMiss /\ IdleColl /\ IdleParse /\ IdleAux

\* cli.py main lines 80-96: parse the arguments, build the configuration and
\* the checker. A --mode outside the choices makes argparse exit with 2.
CliStart ==
    /\ pc = "start"
    /\ \E mode \in CliModes, ign \in CliIgnores, shas \in CliShas :
          IF mode \notin {None, WARN, FAIL}
          THEN /\ pc' = "exited"
               /\ exitCode' = 2
               /\ UNCHANGED <<effConfig, run>>
          ELSE /\ pc' = "constructed"
               /\ effConfig' = cli_config([mode |-> IF mode = None THEN WARN ELSE mode,
                                           ignore_emails |-> ign[1],
                                           ignore_logins |-> ign[2]])
               /\ run' = [base |-> shas[1], head |-> shas[2], number |-> None,
                          token |-> None, repo |-> None]
               /\ UNCHANGED exitCode
    /\ entry' = "cli"
    /\ UNCHANGED <<gitLog, citFile, cmFile, success, results, post, raised>>
    /\ UNCHANGED <<normVars, missVars, collVars, parseVars, auxVars>>

\* github.py main line 141: GitHubContributorChecker() reads the environment
\* and loads the configuration
GithubStart ==
    /\ pc = "start"
    /\ \E in \in GithubInputs, r \in CiRuns :
          /\ effConfig' = github_load_config(in.file, in.env)
          /\ run' = r
    /\ entry' = "github"
    /\ pc' = "constructed"
    /\ UNCHANGED <<gitLog, citFile, cmFile, success, results, post, raised, exitCode>>
    /\ UNCHANGED <<normVars, missVars, collVars, parseVars, auxVars>>

\* gitlab.py main: GitLabContributorChecker() reads the environment and loads
\* the configuration
GitlabStart ==
    /\ pc = "start"
    /\ \E env \in GitlabInputs, r \in CiRuns :
          /\ effConfig' = gitlab_load_config(env)
          /\ run' = r
    /\ entry' = "gitlab"
    /\ pc' = "constructed"
    /\ UNCHANGED <<gitLog, citFile, cmFile, success, results, post, raised, exitCode>>
    /\ UNCHANGED <<normVars, missVars, collVars, parseVars, auxVars>>

\* the branch the entry point takes after construction
Branch == IF entry = "cli" THEN cli_branch(run)
          ELSE IF pr_mode(run) THEN "range" ELSE "all"

\* the context name the entry point gives to check_range_contributors
RangeContext ==
    CASE entry = "cli" -> "specified range"
      [] entry = "github" -> "PR commits"
      [] entry = "gitlab" -> "MR commits"

\* what follows a call of check_contributors_detailed on the collected set:
\* check_pr_contributors / check_mr_contributors go on to post a comment when
\* somebody is missing overall; the CLI and the all-history checks do not
AfterCheck(contributors, context_name, posts) ==
    IF check_contributors_detailed_raises(contributors, citFile, cmFile)
    THEN /\ raised' = "TypeError"
         /\ pc' = "failed"
         /\ UNCHANGED <<success, results>>
    ELSE LET out == check_contributors_detailed(effConfig, contributors, context_name,
                                                citFile, cmFile)
         IN  /\ success' = out.success
             /\ results' = out.results
             /\ pc' = IF posts /\ comment_needed(out.results, out.success)
                      THEN "posting" ELSE "checked"
             /\ UNCHANGED raised

\* an OSError of subprocess.run (git cannot be started) is not caught by
\* _run_git and travels to the entry point
GitCannotStart ==
    /\ raised' = "OSError"
    /\ pc' = "failed"
    /\ UNCHANGED <<success, results>>

\* check_range_contributors, called by cli.main with both SHAs and by
\* check_pr_contributors / check_mr_contributors
CheckRange ==
    /\ pc = "constructed"
    /\ Branch = "range"
    /\ IF gitLog.status = "oserror" THEN GitCannotStart
       ELSE AfterCheck(get_contributors_from_range(effConfig, gitLog, run.base, run.head),
                       RangeContext, entry # "cli")
    /\ UNCHANGED <<entry, effConfig, run, gitLog, citFile, cmFile, post, exitCode>>
    /\ UNCHANGED <<normVars, missVars, collVars, parseVars, auxVars>>

\* check_all_contributors, called by every entry point outside range mode
CheckAll ==
    /\ pc = "constructed"
    /\ Branch = "all"
    /\ IF gitLog.status = "oserror" THEN GitCannotStart
       ELSE AfterCheck(get_all_contributors(effConfig, gitLog), "repository history",
                       FALSE)
    /\ UNCHANGED <<entry, effConfig, run, gitLog, citFile, cmFile, post, exitCode>>
    /\ UNCHANGED <<normVars, missVars, collVars, parseVars, auxVars>>

\* cli.py main lines 108-110: exactly one of --from-sha and --to-sha
CliIncomplete ==
    /\ pc = "constructed"
    /\ Branch = "incomplete"
    /\ exitCode' = 1
    /\ pc' = "exited"
    /\ UNCHANGED <<entry, effConfig, run, gitLog, citFile, cmFile, success, results,
                   post, raised>>
    /\ UNCHANGED <<normVars, missVars, collVars, parseVars, auxVars>>

\* post_pr_comment / post_mr_comment, called when somebody is missing overall
PostComment ==
    /\ pc = "posting"
    /\ \E net \in NetOutcomes :
          LET r == post_comment(run.token, run.repo, run.number, net)
          IN  /\ post' = Append(post, [net |-> net, sent |-> r.sent,
                                        posted |-> r.posted, missing |-> results.missing_overall])
              /\ raised' = r.raised
              /\ pc' = IF r.raised = "none" THEN "checked" ELSE "failed"
    /\ UNCHANGED <<entry, effConfig, run, gitLog, citFile, cmFile, success, results,
                   exitCode>>
    /\ UNCHANGED <<normVars, missVars, collVars, parseVars, auxVars>>

\* the entry point returns its verdict: cli.py lines 118-121, github.py line
\* 154, gitlab.py main
Exit ==
    /\ pc = "checked"
    /\ exitCode' = IF entry = "cli" THEN cli_exit_code(effConfig.mode, success)
                   ELSE ci_exit_code(success)
    /\ pc' = "exited"
    /\ UNCHANGED <<entry, effConfig, run, gitLog, citFile, cmFile, success, results,
                   post, raised>>
    /\ UNCHANGED <<normVars, missVars, collVars, parseVars, auxVars>>

\* the except Exception clause of the entry point
ExitOnException ==
    /\ pc = "failed"
    /\ exitCode' = 1
    /\ pc' = "exited"
    /\ UNCHANGED <<entry, effConfig, run, gitLog, citFile, cmFile, success, results,
                   post, raised>>
    /\ UNCHANGED <<normVars, missVars, collVars, parseVars, auxVars>>

Next ==
    \/ CliStart \/ GithubStart \/ GitlabStart
    \/ CheckRange \/ CheckAll \/ CliIncomplete
    \/ PostComment \/ Exit \/ ExitOnException

Spec == Init /\ [][Next]_vars

\* the repositories of the runs checked for termination: a log of at most
\* one line or a failing git, with and without CITATION.cff and codemeta.json
LiveGits ==
    { [status |-> "ok", stdout |-> << >>],
      [status |-> "ok", stdout |-> Stdout(<< <<"A", "l", " ", "<", "a", "@", "x", ">">> >>)],
      [status |-> "nonzero", stdout |-> << >>],
      [status |-> "oserror", stdout |-> << >>] }

InitLive ==
    /\ Init
    /\ gitLog \in LiveGits
    /\ \/ citFile.kind = "absent"
       \/ citFile.data = V_List(<<V_Str(S_Al)>>)
       \/ citFile.data = CitationData(V_List(<<V_Dict(V_NoKey, V_NoKey, V_Num, V_NoKey)>>))
    /\ cmFile.kind \in {"absent", "unparseable"}

\* the positions of an entry point
PcValues == {"start", "constructed", "posting", "checked", "failed", "exited"}

\* the entry point moves on to another position. Every step of Next changes
\* pc and every position but "exited" has a step of Next, so under
\* [][Next]_vars this is a step of Next and it is enabled exactly where Next
\* is; it is used for the fairness condition because it is evaluated without
\* computing the check again.
Advance == pc \in PcValues \ {"exited"} /\ pc' \in PcValues \ {pc}

\* the entry point is a sequential program: while it has not exited, its
\* next step is taken (git and the HTTP request are taken to return)
SpecLive == InitLive /\ [][Next]_vars /\ WF_pc(Advance)

(***************************************************************************)
(* check_contributors.py: the standalone script                            *)
(*                                                                         *)
(* Its ContributorChecker repeats _run_git, should_include_contributor,    *)
(* the collectors, the two parsers, normalize_contributor_name and         *)
(* find_missing_contributors of core.py statement for statement, and       *)
(* _load_config of github.py; the operators of those are used for them.    *)
(***************************************************************************)
\* main line 296: test_mode = not all([pr_base_sha, pr_head_sha, pr_number])
script_test_mode(r) == ~(~Falsy(r.base) /\ ~Falsy(r.head) /\ ~Falsy(r.number))

\* post_pr_comment lines 180-196: every exception of the request is caught
\* and turned into False
script_post_pr_comment(token, repo, number, net) ==
    IF net = "no_requests" THEN [sent |-> FALSE, posted |-> FALSE]
    ELSE IF Falsy(token) \/ Falsy(repo) \/ Falsy(number)
    THEN [sent |-> FALSE, posted |-> FALSE]
    ELSE [sent |-> TRUE, posted |-> (net = "created")]

\* lines 235-236 and 283-284: missing against the union of the two files
script_missing(contributors, citation_file, codemeta_file) ==
    find_missing_contributors(contributors,
        parse_citation_cff(citation_file).result
            \cup parse_codemeta_json(codemeta_file).result)

\* lines 209-236: the TypeError of a declared set holding a number
script_missing_raises(contributors, citation_file, codemeta_file) ==
    find_missing_contributors_raises(contributors,
        parse_citation_cff(citation_file).result
            \cup parse_codemeta_json(codemeta_file).result)

\* the TypeError travels to main
ScriptTypeError ==
    /\ raised' = "TypeError"
    /\ pc' = "failed"
    /\ UNCHANGED <<success, results>>

\* check_contributors lines 239-244: the value returned in PR mode
script_check_contributors_ok(config, missing) ==
    IF missing # {} THEN config.mode # FAIL ELSE TRUE

\* check_all_contributors_in_metadata lines 287-291: the value returned in
\* test mode
script_check_all_ok(config, missing) ==
    IF missing # {} THEN FALSE ELSE TRUE

\* the environment of the script: a CI job, or a local run with nothing set
ScriptRuns ==
    CiRuns \cup { [base |-> None, head |-> None, number |-> None, token |-> None,
                   repo |-> None] }

\* main line 295: ContributorChecker() reads the environment and loads the
\* configuration
ScriptStart ==
    /\ pc = "start"
    /\ \E in \in GithubInputs, r \in ScriptRuns :
          /\ effConfig' = github_load_config(in.file, in.env)
          /\ run' = r
    /\ entry' = "script"
    /\ pc' = "constructed"
    /\ UNCHANGED <<gitLog, citFile, cmFile, success, results, post, raised, exitCode>>
    /\ UNCHANGED <<normVars, missVars, collVars, parseVars, auxVars>>

\* what the two checks leave behind: the collected set, the missing set and
\* the returned value
ScriptChecked(contributors, missing, ok) ==
    /\ results' = [contributors |-> contributors, missing |-> missing,
                   mode |-> effConfig.mode, test_mode |-> script_test_mode(run)]
    /\ success' = ok
    /\ UNCHANGED raised

\* check_contributors (PR mode) up to the call of post_pr_comment
ScriptCheckPr ==
    /\ pc = "constructed"
    /\ ~script_test_mode(run)
    /\ IF gitLog.status = "oserror" THEN GitCannotStart
       ELSE LET contributors ==
                    get_contributors_from_range(effConfig, gitLog, run.base, run.head)
                missing == script_missing(contributors, citFile, cmFile)
            IN  IF script_missing_raises(contributors, citFile, cmFile)
                THEN ScriptTypeError
                ELSE
                /\ ScriptChecked(contributors, missing,
                                 script_check_contributors_ok(effConfig, missing))
                /\ pc' = IF missing # {} THEN "posting" ELSE "checked"
    /\ UNCHANGED <<entry, effConfig, run, gitLog, citFile, cmFile, post, exitCode>>
    /\ UNCHANGED <<normVars, missVars, collVars, parseVars, auxVars>>

\* check_all_contributors_in_metadata (test mode)
ScriptCheckAll ==
    /\ pc = "constructed"
    /\ script_test_mode(run)
    /\ IF gitLog.status = "oserror" THEN GitCannotStart
       ELSE LET contributors == get_all_contributors(effConfig, gitLog)
                missing == script_missing(contributors, citFile, cmFile)
            IN  IF script_missing_raises(contributors, citFile, cmFile)
                THEN ScriptTypeError
                ELSE
                /\ ScriptChecked(contributors, missing,
                                 script_check_all_ok(effConfig, missing))
                /\ pc' = "checked"
    /\ UNCHANGED <<entry, effConfig, run, gitLog, citFile, cmFile, post, exitCode>>
    /\ UNCHANGED <<normVars, missVars, collVars, parseVars, auxVars>>

\* check_contributors line 241: self.post_pr_comment(missing), its value
\* is dropped
ScriptPost ==
    /\ pc = "posting"
    /\ \E net \in NetOutcomes :
          LET r == script_post_pr_comment(run.token, run.repo, run.number, net)
          IN  post' = Append(post, [net |-> net, sent |-> r.sent,
                                    posted |-> r.posted, missing |-> results.missing])
    /\ pc' = "checked"
    /\ UNCHANGED <<entry, effConfig, run, gitLog, citFile, cmFile, success, results,
                   raised, exitCode>>
    /\ UNCHANGED <<normVars, missVars, collVars, parseVars, auxVars>>

\* main line 304: sys.exit(0 if ok else 1)
ScriptExit ==
    /\ pc = "checked"
    /\ exitCode' = (IF success THEN 0 ELSE 1)
    /\ pc' = "exited"
    /\ UNCHANGED <<entry, effConfig, run, gitLog, citFile, cmFile, success, results,
                   post, raised>>
    /\ UNCHANGED <<normVars, missVars, collVars, parseVars, auxVars>>

\* main lines 305-307: except Exception, sys.exit(1)
ScriptExitOnException ==
    /\ pc = "failed"
    /\ exitCode' = 1
    /\ pc' = "exited"
    /\ UNCHANGED <<entry, effConfig, run, gitLog, citFile, cmFile, success, results,
                   post, raised>>
    /\ UNCHANGED <<normVars, missVars, collVars, parseVars, auxVars>>

NextScript ==
    \/ ScriptStart
    \/ ScriptCheckPr \/ ScriptCheckAll
    \/ ScriptPost \/ ScriptExit \/ ScriptExitOnException

SpecScript == Init /\ [][NextScript]_vars

(***************************************************************************)
(* SpecCore: a caller of core.py constructs a ContributorChecker and calls *)
(* check_range_contributors or check_all_contributors on it                *)
(***************************************************************************)
\* the config argument of ContributorChecker
CoreConfigs ==
    { [mode |-> m, ignore_emails |-> ign[1], ignore_logins |-> ign[2]] :
          m \in {WARN, FAIL}, ign \in { << << >>, << >> >>, << <<S_CMail>>, <<S_cy>> >> } }

\* the two bounds handed to check_range_contributors
CoreShas ==
    { <<SHA1, SHA2>>, <<None, SHA2>>, <<SHA1, << >> >>, <<None, None>>,
      << << >>, << >> >> }

\* the default of the context_name parameter, core.py line 276
RANGE_COMMITS == "range commits"

\* ContributorChecker(repo_path, config), and the call the caller will make
CoreConstruct ==
    /\ pc = "start"
    /\ \E c \in CoreConfigs, shas \in CoreShas, op \in {"range", "all"} :
          /\ effConfig' = c
          /\ run' = [op |-> op, base |-> shas[1], head |-> shas[2]]
    /\ entry' = "core"
    /\ pc' = "constructed"
    /\ UNCHANGED <<gitLog, citFile, cmFile, success, results, post, raised, exitCode>>
    /\ UNCHANGED <<normVars, missVars, collVars, parseVars, auxVars>>

\* check_range_contributors(base_sha, head_sha)
CoreCheckRange ==
    /\ pc = "constructed"
    /\ run.op = "range"
    /\ IF range_runs_git(run.base, run.head) /\ gitLog.status = "oserror"
       THEN GitCannotStart
       ELSE AfterCheck(get_contributors_from_range(effConfig, gitLog, run.base, run.head),
                       RANGE_COMMITS, FALSE)
    /\ UNCHANGED <<entry, effConfig, run, gitLog, citFile, cmFile, post, exitCode>>
    /\ UNCHANGED <<normVars, missVars, collVars, parseVars, auxVars>>

\* check_all_contributors()
CoreCheckAll ==
    /\ pc = "constructed"
    /\ run.op = "all"
    /\ IF gitLog.status = "oserror" THEN GitCannotStart
       ELSE AfterCheck(get_all_contributors(effConfig, gitLog), "repository history",
                       FALSE)
    /\ UNCHANGED <<entry, effConfig, run, gitLog, citFile, cmFile, post, exitCode>>
    /\ UNCHANGED <<normVars, missVars, collVars, parseVars, auxVars>>

NextCore == CoreConstruct \/ CoreCheckRange \/ CoreCheckAll

SpecCore == Init /\ [][NextCore]_vars

(***************************************************************************)
(* SpecConfig: the three configuration loaders on enumerated inputs        *)
(***************************************************************************)
\* .github/contrib-metadata-check.yml: absent, invalid, empty, or a mapping
ConfigFiles ==
    { [kind |-> "absent", data |-> EmptyDict],
      [kind |-> "unparseable", data |-> EmptyDict],
      [kind |-> "loaded", data |-> EmptyDict],
      [kind |-> "loaded", data |-> [mode |-> FAIL]],
      [kind |-> "loaded", data |-> [ignore_emails |-> <<S_Mail>>]],
      [kind |-> "loaded",
       data |-> [mode |-> FAIL, ignore_emails |-> << >>, ignore_logins |-> <<S_al>>]] }

\* values of ACTION_MODE and MODE (None: the variable is unset)
EnvModes == {None, << >>, WARN, FAIL, <<"F", "A", "I", "L">>, <<"\t", "F", "a", "i", "l", "\n">>}

\* values of the comma-separated list variables
EnvLists ==
    { None, << >>, <<" ">>, <<"c", "@", "x", ",", " ", ",", "d", "@", "x">>, <<" ", ",", " ">>,
      <<" ", "c", "y", " ">> }

\* command-line arguments of the CLI
ArgModes == {WARN, FAIL}
ArgLists == {NoList, <<S_CMail>>, <<S_cy, S_Mail>>}

ConfigInputs ==
    {[loader |-> "github", file |-> f,
      env |-> [ACTION_MODE |-> m, ACTION_IGNORE_EMAILS |-> e,
               ACTION_IGNORE_LOGINS |-> l]] :
         f \in ConfigFiles, m \in EnvModes \ {<<"\t", "F", "a", "i", "l", "\n">>}, e \in EnvLists, l \in EnvLists}
    \cup {[loader |-> "gitlab",
           env |-> [MODE |-> m, IGNORE_EMAILS |-> e, IGNORE_LOGINS |-> l]] :
              m \in EnvModes, e \in EnvLists, l \in EnvLists}
    \cup {[loader |-> "cli",
           args |-> [mode |-> m, ignore_emails |-> e, ignore_logins |-> l]] :
              m \in ArgModes, e \in ArgLists, l \in ArgLists}

InitConfig ==
    /\ kIn \in ConfigInputs
    /\ kOut = None
    /\ kOp = "none"
    /\ IdleNorm /\ IdleMiss /\ IdleColl /\ IdleParse /\ IdleMain /\ IdleComment

\* GitHubContributorChecker._load_config
LoadGithub ==
    /\ kOp = "none"
    /\ kIn.loader = "github"
    /\ kOut' = github_load_config(kIn.file, kIn.env)
    /\ kOp' = "github"
    /\ UNCHANGED <<kIn, normVars, missVars, collVars, parseVars, mainVars, commentVars>>

\* GitLabContributorChecker._load_config
LoadGitlab ==
    /\ kOp = "none"
    /\ kIn.loader = "gitlab"
    /\ kOut' = gitlab_load_config(kIn.env)
    /\ kOp' = "gitlab"
    /\ UNCHANGED <<kIn, normVars, missVars, collVars, parseVars, mainVars, commentVars>>

\* cli.py main: the configuration built from the parsed arguments
LoadCli ==
    /\ kOp = "none"
    /\ kIn.loader = "cli"
    /\ kOut' = cli_config(kIn.args)
    /\ kOp' = "cli"
    /\ UNCHANGED <<kIn, normVars, missVars, collVars, parseVars, mainVars, commentVars>>

NextConfig == LoadGithub \/ LoadGitlab \/ LoadCli

SpecConfig == InitConfig /\ [][NextConfig]_vars

(***************************************************************************)
(* SpecComment: create_comment_body for GitHub ("PR") and GitLab ("MR")    *)
(***************************************************************************)
CommentIdentities ==
    { <<"A", "l", " ", "<", "a", "@", "x", ">">>, S_AL, S_al, S_Bo, <<"B">>,
      <<"C", "y", " ", "<", "c", "@", "x", ">">>,
      <<"U+00C9", "r", "i", "c">> }

PLATFORM_PR == <<"P", "R">>
PLATFORM_MR == <<"M", "R">>

InitComment ==
    /\ bMissing \in SetsUpTo(CommentIdentities, MaxMissing)
    /\ bPR = None /\ bMR = None
    /\ bOp = {}
    /\ IdleNorm /\ IdleMiss /\ IdleColl /\ IdleParse /\ IdleMain /\ IdleConfig

\* github.py line 101: create_comment_body(missing_contributors, "PR")
RenderPR ==
    /\ "PR" \notin bOp
    /\ bPR' = create_comment_body(bMissing, PLATFORM_PR)
    /\ bOp' = bOp \cup {"PR"}
    /\ UNCHANGED <<bMissing, bMR>>
    /\ UNCHANGED <<normVars, missVars, collVars, parseVars, mainVars, configVars>>

\* gitlab.py line 91: create_comment_body(missing_contributors, "MR")
RenderMR ==
    /\ "MR" \notin bOp
    /\ bMR' = create_comment_body(bMissing, PLATFORM_MR)
    /\ bOp' = bOp \cup {"MR"}
    /\ UNCHANGED <<bMissing, bPR>>
    /\ UNCHANGED <<normVars, missVars, collVars, parseVars, mainVars, configVars>>

NextComment == RenderPR \/ RenderMR

SpecComment == InitComment /\ [][NextComment]_vars

(***************************************************************************)
(* Reference definitions used to state the claims on the normalizer        *)
(***************************************************************************)
\* s[i..k] is a bracketed span: '<', one or more characters other than '>', '>'
IsSpan(s, i, k) ==
    /\ 1 <= i /\ i + 2 <= k /\ k <= Len(s)
    /\ s[i] = "<" /\ s[k] = ">"
    /\ \A j \in (i + 1)..(k - 1) : s[j] # ">"

HasSpan(s) == \E i \in 1..Len(s) : \E k \in 1..Len(s) : IsSpan(s, i, k)

\* s without its first (leftmost) bracketed span; s itself when it has none
WithoutFirstSpan(s) ==
    IF ~HasSpan(s) THEN s
    ELSE LET i == CHOOSE x \in 1..Len(s) :
                    /\ \E k \in 1..Len(s) : IsSpan(s, x, k)
                    /\ \A y \in 1..(x - 1) : \A k \in 1..Len(s) : ~IsSpan(s, y, k)
             k == CHOOSE x \in 1..Len(s) : IsSpan(s, i, x)
         IN  SubSeq(s, 1, i - 1) \o SubSeq(s, k + 1, Len(s))

\* s with bracketed spans removed, first one first, until none is left
RECURSIVE WithoutAnySpan(_)
WithoutAnySpan(s) == IF HasSpan(s) THEN WithoutAnySpan(WithoutFirstSpan(s)) ELSE s

\* the positions of s that survive "split on whitespace runs, rejoin with
\* single spaces": every non-whitespace character, and the first whitespace
\* character of every run that has a non-whitespace character on both sides
KeptPositions(s) ==
    {i \in 1..Len(s) :
        \/ ~IsSpace(s[i])
        \/ /\ i > 1 /\ ~IsSpace(s[i - 1])
           /\ \E j \in (i + 1)..Len(s) : ~IsSpace(s[j])}

CollapsedLower(s) ==
    LET idx == KeptPositions(s)
        nth(n) == CHOOSE i \in idx : Cardinality({j \in idx : j < i}) = n - 1
    IN  Lower([n \in 1..Cardinality(idx) |->
                  IF IsSpace(s[nth(n)]) THEN " " ELSE s[nth(n)]])

AllSpace(s) == \A i \in 1..Len(s) : IsSpace(s[i])

(***************************************************************************)
(* Claims                                                                  *)
(***************************************************************************)
\* C8 (as stated): the normalized key of s is s with its FIRST bracketed span
\* removed (if it has one), split on whitespace runs, rejoined with single
\* spaces and lowercased.
C8_FirstSpanOnly ==
    nStep >= 1 => nOut = CollapsedLower(WithoutFirstSpan(nIn))

\* C8 (amended): the normalized key of s is s with EVERY bracketed span
\* '<' + one or more non-'>' characters + '>' removed, then split on
\* whitespace runs, rejoined with single spaces and lowercased; the empty and
\* the all-whitespace string are mapped to the empty string.
C8_NormalizeRemovesEverySpan ==
    nStep >= 1 =>
        /\ nOut = CollapsedLower(WithoutAnySpan(nIn))
        /\ (AllSpace(nIn) => nOut = << >>)

\* C8 witness: a string with two bracketed spans and a whitespace run has
\* been normalized
C8_Witness ==
    /\ nStep >= 1
    /\ HasSpan(nIn) /\ HasSpan(WithoutFirstSpan(nIn))
    /\ nOut = << >>

\* C9: normalize_contributor_name is idempotent: normalizing a normalized key
\* gives the same key, for every string, also with several, nested, empty or
\* unbalanced angle brackets.
C9_NormalizeIdempotent ==
    nStep = 2 => nTwice = nOut

\* C9 witness: a key that still holds an unmatched '<' after a span was
\* removed from the input has been normalized a second time
C9_Witness ==
    /\ nStep = 2
    /\ HasSpan(nIn)
    /\ \E i \in 1..Len(nOut) : nOut[i] = "<"
    /\ nTwice = nOut

\* the normalized keys of a set of identity strings
Keys(S) == {normalize_contributor_name(x) : x \in S}

ActualStrings == {IdString(a) : a \in mActual}
DeclaredStrings == {IdString(d) : d \in mDeclared}

\* C3: find_missing_contributors(A, D) is exactly the set of the a in A whose
\* normalized key is not the key of any d in D; so it is a subset of A, and it
\* is empty whenever every key of A is a key of D.
C3_FindMissingIsKeyDifference ==
    mStep = 1 =>
        /\ mMissing = {a \in ActualStrings :
                          normalize_contributor_name(a) \notin Keys(DeclaredStrings)}
        /\ mMissing \subseteq ActualStrings
        /\ (Keys(ActualStrings) \subseteq Keys(DeclaredStrings) => mMissing = {})

\* C3 witness: an actual identity is kept out of the result by a declared
\* identity that is a different string with the same key, and another actual
\* identity is reported missing
C3_Witness ==
    /\ mStep = 1
    /\ mMissing # {} /\ mMissing # ActualStrings
    /\ \E a \in ActualStrings \ mMissing : a \notin DeclaredStrings

\* two names are the same up to letter case and whitespace runs: equal once
\* whitespace runs are single spaces and str.lower() has been applied
SameName(x, y) == CollapsedLower(x) = CollapsedLower(y)

\* C7: an actual contributor is not reported missing iff some declared entry
\* has the same name up to letter case and whitespace runs, whatever the two
\* email addresses are (equal, different, or absent on either side).
C7_SameContributorIffSameKey ==
    mStep = 1 =>
        \A a \in mActual :
            IdString(a) \notin mMissing
                <=> \E d \in mDeclared : SameName(a.name, d.name)

\* C7 witness: an actual identity with an email is matched by a declared one
\* that differs in letter case, in spacing and in email, while an actual
\* identity whose name differs only by a missing space is reported missing
C7_Witness ==
    /\ mStep = 1
    /\ \E a \in mActual : \E d \in mDeclared :
            /\ a.name # d.name /\ a.email # d.email /\ a.email # NoEmail
            /\ IdString(a) \notin mMissing
    /\ \E a \in mActual : \E d \in mDeclared :
            /\ IdString(a) \in mMissing
            /\ d.name = <<"A", "l", " ", "B", "o">> /\ a.name = <<"A", "l", "b", "o">>

\* needle occurs in hay
IsSubstring(needle, hay) ==
    \E i \in 1..(Len(hay) + 1) :
        /\ i + Len(needle) - 1 <= Len(hay)
        /\ \A k \in 1..Len(needle) : hay[i + k - 1] = needle[k]

\* the text between the brackets of the first bracketed span of the line
BracketedEmail(line) ==
    LET i == CHOOSE x \in 1..Len(line) :
                /\ \E k \in 1..Len(line) : IsSpan(line, x, k)
                /\ \A y \in 1..(x - 1) : \A k \in 1..Len(line) : ~IsSpan(line, y, k)
        k == CHOOSE x \in 1..Len(line) : IsSpan(line, i, x)
    IN  SubSeq(line, i + 1, k - 1)

Elements(list) == {list[i] : i \in 1..Len(list)}

\* the three conditions under which a line is retained
Retained(config, line) ==
    /\ ~(HasSpan(line) /\ BracketedEmail(line) \in Elements(config.ignore_emails))
    /\ \A login \in Elements(config.ignore_logins) :
            ~IsSubstring(Lower(login), Lower(line))
    /\ ~IsSubstring(<<"b", "o", "t">>, Lower(line))

\* s without its leading and trailing whitespace
Trimmed(s) ==
    LET keep == {i \in 1..Len(s) : ~IsSpace(s[i])}
    IN  IF keep = {} THEN << >>
        ELSE SubSeq(s, CHOOSE i \in keep : \A j \in keep : i <= j,
                       CHOOSE i \in keep : \A j \in keep : i >= j)

\* the lines of the stdout of the command: the text between two line
\* separators, before the first and after the last
LogLines(git) ==
    LET out == git.stdout
        seps == {i \in 1..Len(out) : out[i] \in LineBoundaries}
        ends == seps \cup {Len(out) + 1}
        start(e) == IF \E j \in seps : j < e
                    THEN (CHOOSE j \in seps : j < e /\ \A h \in seps : h < e => h <= j) + 1
                    ELSE 1
    IN  {SubSeq(out, start(e), e - 1) : e \in ends}

\* the collector ran the log command and the command succeeded
LogWasRead ==
    /\ cGit.status = "ok"
    /\ cOp = "all" \/ (cOp = "range" /\ ~Falsy(cShas[1]) /\ ~Falsy(cShas[2]))

\* C5: should_include_contributor(line) is true iff the bracketed email of the
\* line is not an entry of ignore_emails, no entry of ignore_logins
\* (lowercased) occurs in the lowercased line, and the lowercased line does
\* not contain 'bot'; and both collectors return exactly the set of trimmed,
\* non-empty log lines for which it is true, unchanged in case and spacing.
C5_CollectorKeepsExactlyRetainedLines ==
    /\ cOp # "none" =>
          \A raw \in LogLines(cGit) :
              should_include_contributor(cConfig, Trimmed(raw))
                  <=> Retained(cConfig, Trimmed(raw))
    /\ LogWasRead =>
          cResult = {Trimmed(raw) : raw \in
                        {l \in LogLines(cGit) :
                            Trimmed(l) # << >> /\ Retained(cConfig, Trimmed(l))}}

\* C5 witness: a log with a padded line that is kept (trimmed, inner double
\* space intact) and a line rejected by the configuration was collected
C5_Witness ==
    /\ LogWasRead
    /\ <<"A", "L", " ", " ", "<", "b", "@", "x", ">">> \in cResult
    /\ \E raw \in LogLines(cGit) :
          /\ Trimmed(raw) \notin cResult
          /\ ~IsSubstring(<<"b", "o", "t">>, Lower(raw))
          /\ Trimmed(raw) # << >>

\* the elements of a field of a loaded mapping, a single value taken as a
\* one-element list and an absent key as the empty list
FieldEntries(data, field) ==
    IF field \notin DOMAIN data \/ data[field].t = "nokey" THEN {}
    ELSE IF data[field].t = "list" THEN Elements(data[field].v)
    ELSE {data[field]}

CodemetaFieldNames == {"author", "contributor", "maintainer"}

\* the file was read by the parser that was called
ParsedAs(op) == pOp = op /\ pFile.kind = "loaded"

\* the loaded file does not have the structure of its schema: the top level
\* is not a mapping, authors is not a list (CITATION.cff), or an entry is
\* neither a person mapping nor a string
UnexpectedStructure ==
    \/ /\ ParsedAs("citation")
       /\ \/ Truthy(pFile.data) /\ pFile.data.t # "dict"
          \/ /\ pFile.data.t = "dict" /\ "authors" \in DOMAIN pFile.data
             /\ pFile.data.authors.t \notin {"nokey", "list"}
          \/ /\ pFile.data.t = "dict"
             /\ \E e \in FieldEntries(pFile.data, "authors") : e.t \notin {"dict", "str"}
    \/ /\ ParsedAs("codemeta")
       /\ \/ pFile.data.t # "dict"
          \/ /\ pFile.data.t = "dict"
             /\ \E f \in CodemetaFieldNames : \E e \in FieldEntries(pFile.data, f) :
                    e.t \notin {"dict", "str"}

\* a person whose name is a non-empty list or mapping and who has no email:
\* the name cannot be a member of a set
UnhashableName(e) ==
    /\ e.t = "dict"
    /\ e.name.t \in {"list", "dict"} /\ Truthy(e.name)
    /\ ~Truthy(e.email)

\* the loaded file has a structure on which the extraction code raises: the
\* top level is not a mapping, authors of CITATION.cff is null or a number,
\* a codemeta.json person without name has a givenName or familyName that
\* is no string, or the name used for a person without email is a list or a
\* mapping
RaisingStructure ==
    \/ /\ ParsedAs("citation")
       /\ \/ Truthy(pFile.data) /\ pFile.data.t # "dict"
          \/ /\ pFile.data.t = "dict" /\ "authors" \in DOMAIN pFile.data
             /\ pFile.data.authors.t \in {"none", "num"}
          \/ /\ pFile.data.t = "dict" /\ "authors" \in DOMAIN pFile.data
             /\ pFile.data.authors.t = "list"
             /\ \E e \in FieldEntries(pFile.data, "authors") :
                    /\ UnhashableName(e)
                    /\ e.given.t = "nokey" \/ e.family.t = "nokey"
    \/ /\ ParsedAs("codemeta")
       /\ \/ pFile.data.t # "dict"
          \/ /\ pFile.data.t = "dict"
             /\ \E f \in CodemetaFieldNames : \E e \in FieldEntries(pFile.data, f) :
                    \/ /\ e.t = "dict" /\ ~Truthy(e.name)
                       /\ \/ e.given.t \notin {"nokey", "str"}
                          \/ e.family.t \notin {"nokey", "str"}
                    \/ UnhashableName(e)

\* C10 (as stated): the extractors never raise to the caller; for a file
\* that does not exist they return the empty set; for a file that exists but
\* cannot be parsed, or has an unexpected structure, they return the empty
\* set after printing a warning.
C10_EmptySetOnAnyUnexpectedStructure ==
    pOp # "none" =>
        /\ ~pOut.raised
        /\ (pFile.kind = "absent" => pOut.result = {})
        /\ (pFile.kind = "unparseable" \/ UnexpectedStructure
                => pOut.result = {} /\ pOut.warned)

\* C10 (amended): the extractors never raise to the caller; for a file that
\* does not exist they return the empty set (no warning); for a file that
\* exists but cannot be parsed, or whose structure makes the extraction raise,
\* they return the empty set after printing a warning.
C10_ParsersNeverRaise ==
    pOp # "none" =>
        /\ ~pOut.raised
        /\ (pFile.kind = "absent" => pOut.result = {} /\ ~pOut.warned)
        /\ (pFile.kind = "unparseable" \/ RaisingStructure
                => pOut.result = {} /\ pOut.warned)

\* C10 witness: codemeta.json holds a person with a name and a person whose
\* givenName is null; the parser returned the empty set with a warning
C10_Witness ==
    /\ pOp = "codemeta" /\ RaisingStructure
    /\ pFile.data.t = "dict"
    /\ \E e \in FieldEntries(pFile.data, "author") : e.t = "dict" /\ Truthy(e.name)
    /\ pOut = Returned({}, TRUE)

(***************************************************************************)
(* Claims on the entry points and on check_contributors_detailed (Spec)    *)
(***************************************************************************)
\* check_contributors_detailed has returned in this run
HasResults == DOMAIN results # {}

\* C1: in every run of an entry point that computed missing_overall, the
\* exit code is 0 when missing_overall is empty, 0 when it is non-empty and
\* the mode is 'warn', 1 when it is non-empty and the mode is 'fail'; and
\* the exit code is 1 when an exception reached the entry point.
C1_ExitCodeFollowsVerdict ==
    pc = "exited" =>
        /\ (HasResults /\ results.missing_overall = {}) => exitCode = 0
        /\ (HasResults /\ results.missing_overall # {} /\ results.mode = WARN)
               => exitCode = 0
        /\ (HasResults /\ results.missing_overall # {} /\ results.mode = FAIL)
               => exitCode = 1
        /\ raised # "none" => exitCode = 1

\* C2: the success flag returned by check_contributors_detailed is
\* (mode is not 'fail') or (missing_overall is empty), whatever the mode
\* value; 'warn' always succeeds, 'fail' succeeds iff nobody is missing.
C2_SuccessIsNotFailOrNothingMissing ==
    HasResults =>
        /\ success <=> (results.mode # FAIL \/ results.missing_overall = {})
        /\ results.mode = WARN => success
        /\ results.mode = FAIL => (success <=> results.missing_overall = {})

\* C2 witness: a check in 'fail' mode found somebody missing and returned
\* failure
C2_Witness ==
    /\ HasResults
    /\ results.mode = FAIL
    /\ results.missing_overall # {}
    /\ success = FALSE

\* the contributors of the results whose key is the key of no entry of S
Unmatched(S) ==
    {c \in results.contributors : normalize_contributor_name(c) \notin Keys(S)}

\* C4: missing_overall is the set of the contributors whose key is a key of
\* neither file, so a contributor matched by one file alone is not in it,
\* and it is a subset of the intersection of missing_citation and
\* missing_codemeta, also when a declared set is empty.
C4_MissingOverallFromUnionOfFiles ==
    HasResults =>
        /\ results.missing_overall
               = Unmatched(results.citation_cff \cup results.codemeta_json)
        /\ \A c \in results.contributors :
               (\/ normalize_contributor_name(c) \in Keys(results.citation_cff)
                \/ normalize_contributor_name(c) \in Keys(results.codemeta_json))
                   => c \notin results.missing_overall
        /\ results.missing_overall
               \subseteq (results.missing_citation \cap results.missing_codemeta)

\* C4 witness: both files declare somebody, a contributor is matched by
\* CITATION.cff alone (so is missing from codemeta.json but not overall),
\* and another contributor is missing overall
C4_Witness ==
    /\ HasResults
    /\ results.citation_cff # {} /\ results.codemeta_json # {}
    /\ \E c \in results.contributors :
           /\ normalize_contributor_name(c) \in Keys(results.citation_cff)
           /\ c \in results.missing_codemeta
           /\ c \notin results.missing_overall
    /\ results.missing_overall # {}

\* the log lines of the run, trimmed
MainLogTrimmed == {Trimmed(raw) : raw \in LogLines(gitLog)}

\* C6: whatever the configuration (from the command line, the configuration
\* file or the environment; with empty ignore lists too), no log line whose
\* lowercase form contains 'bot' is in the collected set or in a missing set.
C6_BotLinesNeverCollected ==
    HasResults =>
        \A line \in MainLogTrimmed :
            IsSubstring(BOT, Lower(line)) =>
                line \notin (results.contributors \cup results.missing_citation
                                \cup results.missing_codemeta
                                \cup results.missing_overall)

\* C6 witness: with both ignore lists empty, a log holding a 'Bot' line and
\* another line was collected, and the other line is reported missing
C6_Witness ==
    /\ HasResults
    /\ effConfig.ignore_emails = << >> /\ effConfig.ignore_logins = << >>
    /\ gitLog.status = "ok"
    /\ \E line \in MainLogTrimmed : IsSubstring(BOT, Lower(line))
    /\ results.missing_overall # {}

\* the file is absent, has invalid syntax, or holds a list where the
\* mapping is expected
Unreadable(file) ==
    \/ file.kind \in {"absent", "unparseable"}
    \/ file.kind = "loaded" /\ file.data.t = "list"

\* neither metadata file can be read
NoMetadata == Unreadable(citFile) /\ Unreadable(cmFile)

\* C11: when both metadata files are malformed or absent, missing_citation,
\* missing_codemeta and missing_overall all equal the collected set; the
\* check fails in 'fail' mode when somebody was collected and succeeds in
\* 'warn' mode.
C11_EverybodyMissingWithoutMetadata ==
    (HasResults /\ NoMetadata) =>
        /\ results.missing_citation = results.contributors
        /\ results.missing_codemeta = results.contributors
        /\ results.missing_overall = results.contributors
        /\ (results.mode = FAIL /\ results.contributors # {}) => success = FALSE
        /\ results.mode = WARN => success = TRUE

\* C11 witness: CITATION.cff is unparseable, codemeta.json is absent, two
\* contributors were collected and the check failed in 'fail' mode
C11_Witness ==
    /\ HasResults
    /\ citFile.kind = "unparseable" /\ cmFile.kind = "absent"
    /\ Cardinality(results.contributors) = 2
    /\ results.missing_overall = results.contributors
    /\ results.mode = FAIL
    /\ success = FALSE

\* C12: however the HTTP post fails (no credentials, no HTTP client, an
\* error status, an exception with or without a response), the posting call
\* returns False without raising, and the wrapper check returns the success
\* value of the core check, which alone decides the exit code.
C12_PostFailureNeverChangesVerdict ==
    \A i \in 1..Len(post) :
        /\ raised = "none"
        /\ post[i].net # "created" => post[i].posted = FALSE
        /\ pc = "exited" => exitCode = ci_exit_code(success)

(***************************************************************************)
(* Claims on the configuration loaders (SpecConfig)                        *)
(***************************************************************************)
\* the text between the occurrences of the separator in s, in order
FieldsBy(s, sep) ==
    LET commas == {i \in 1..Len(s) : s[i] = sep}
        n == Cardinality(commas)
        \* position of the k-th comma; 0 before the first, Len(s) + 1 after the last
        at(k) == IF k = 0 THEN 0
                 ELSE IF k = n + 1 THEN Len(s) + 1
                 ELSE CHOOSE i \in commas : Cardinality({j \in commas : j < i}) = k - 1
    IN  [k \in 1..(n + 1) |-> SubSeq(s, at(k - 1) + 1, at(k) - 1)]

CommaFields(s) == FieldsBy(s, ",")

NonBlank(field) == Trimmed(field) # << >>

\* the comma-separated, trimmed, non-empty entries of s
ListEntries(s) ==
    LET kept == SelectSeq(CommaFields(s), NonBlank)
    IN  [k \in 1..Len(kept) |-> Trimmed(kept[k])]

\* the variable holds a value that is not blank
IsSetList(v) == v # None /\ Trimmed(v) # << >>

\* the variable holds a non-empty value
IsSetMode(v) == v # None /\ v # << >>

\* the value the file gives to a key, the default when the file is absent,
\* unparseable or silent about the key
FromFileOrDefault(file, key, default) ==
    IF file.kind = "loaded" /\ key \in DOMAIN file.data THEN file.data[key]
    ELSE default

\* C13: the GitHub configuration is layered defaults < file < environment
\* and a later source replaces: a list variable that is set gives exactly
\* its comma-separated, trimmed, non-empty entries; ACTION_MODE, when set,
\* replaces the mode of the file; a key set in the file replaces the default.
C13_GithubLayersReplace ==
    kOp = "github" =>
        LET env == kIn.env
            file == kIn.file
        IN  /\ kOut.ignore_emails =
                   IF IsSetList(env.ACTION_IGNORE_EMAILS)
                   THEN ListEntries(env.ACTION_IGNORE_EMAILS)
                   ELSE FromFileOrDefault(file, "ignore_emails", <<DEPENDABOT_EMAIL>>)
            /\ kOut.ignore_logins =
                   IF IsSetList(env.ACTION_IGNORE_LOGINS)
                   THEN ListEntries(env.ACTION_IGNORE_LOGINS)
                   ELSE FromFileOrDefault(file, "ignore_logins", <<DEPENDABOT_LOGIN>>)
            /\ kOut.mode =
                   IF IsSetMode(env.ACTION_MODE) THEN env.ACTION_MODE
                   ELSE FromFileOrDefault(file, "mode", WARN)

\* C13 witness: the file sets the mode and both lists, ACTION_MODE and
\* ACTION_IGNORE_EMAILS are set, ACTION_IGNORE_LOGINS is not: the emails are
\* the two entries of the variable, the mode is the variable's, the logins
\* are the file's
C13_Witness ==
    /\ kOp = "github"
    /\ kIn.file.kind = "loaded"
    /\ DOMAIN kIn.file.data = {"mode", "ignore_emails", "ignore_logins"}
    /\ kIn.env.ACTION_MODE = WARN
    /\ kIn.env.ACTION_IGNORE_EMAILS = <<"c", "@", "x", ",", " ", ",", "d", "@", "x">>
    /\ kIn.env.ACTION_IGNORE_LOGINS = None
    /\ kOut = [mode |-> WARN, ignore_emails |-> <<S_CMail, <<"d", "@", "x">>>>,
               ignore_logins |-> <<S_al>>]

(***************************************************************************)
(* Claims on the mapping of records to identities (SpecParse)              *)
(***************************************************************************)
HasKey(v) == v.t # "nokey"

\* the name (a string or a number) as it is, or its text followed by
\* ' <email>' when the record has a non-empty email
Labelled(name, a, K) ==
    IF Truthy(a.email)
    THEN Format(name, K) \o <<" ", "<">> \o Format(a.email, K) \o <<">">>
    ELSE IF name.t = "str" THEN name.v ELSE NumberMember

\* the identity schema A gives to a record: no set or a singleton
CitationIdentity(a) ==
    IF HasKey(a.given) /\ HasKey(a.family)
    THEN {Labelled(V_Str(Format(a.given, CitationKeyNames) \o <<" ">>
                             \o Format(a.family, CitationKeyNames)),
                   a, CitationKeyNames)}
    ELSE IF Truthy(a.name) THEN {Labelled(a.name, a, CitationKeyNames)}
    ELSE {}

\* CITATION.cff was loaded as a mapping whose authors is a list
CitationListParsed ==
    /\ ParsedAs("citation")
    /\ pFile.data.t = "dict" /\ "authors" \in DOMAIN pFile.data
    /\ pFile.data.authors.t = "list"
    /\ ~RaisingStructure

\* C14: schema A maps each entry of authors: a bare string as it is; a
\* record with given-names and family-names to 'given family', also when it
\* has a name; otherwise a record with a name to that name; a record with
\* neither to nothing; with ' <email>' appended when the record has an
\* email. The result is the set of these identities, on every authors list
\* on which the extraction does not raise.
C14_CitationEntriesToIdentities ==
    CitationListParsed =>
        LET entries == Elements(pFile.data.authors.v)
        IN  /\ ~pOut.warned
            /\ \A a \in entries :
                   /\ a.t = "str" => a.v \in pOut.result
                   /\ a.t = "dict" => CitationIdentity(a) \subseteq pOut.result
            /\ \A id \in pOut.result :
                   \E a \in entries :
                       \/ a.t = "str" /\ id = a.v
                       \/ a.t = "dict" /\ id \in CitationIdentity(a)

\* C14 witness: authors holds a record with given-names, family-names and
\* name but no email, and a record with name and email
C14_Witness ==
    /\ CitationListParsed
    /\ pFile.data.authors.v =
           <<V_Dict(V_Str(S_Al), V_Str(S_Bo), V_Str(S_Cy), V_NoKey),
             V_Dict(V_NoKey, V_NoKey, V_Str(S_Cy), V_Str(S_Mail))>>
    /\ pOut.result = {S_Al \o <<" ">> \o S_Bo,
                      S_Cy \o <<" ", "<">> \o S_Mail \o <<">">>}

\* the value of givenName / familyName, '' when the key is absent
TextOrEmpty(v) == IF HasKey(v) THEN Format(v, CodemetaKeyNames) ELSE << >>

\* the identity schema B gives to a record: no set or a singleton
CodemetaIdentity(a) ==
    IF Truthy(a.name) THEN {Labelled(a.name, a, CodemetaKeyNames)}
    ELSE LET joined == Trimmed(TextOrEmpty(a.given) \o <<" ">> \o TextOrEmpty(a.family))
         IN  IF joined # << >> THEN {Labelled(V_Str(joined), a, CodemetaKeyNames)}
             ELSE {}

\* codemeta.json was loaded as a mapping on which the extraction does not raise
CodemetaParsed ==
    ParsedAs("codemeta") /\ pFile.data.t = "dict" /\ ~RaisingStructure

\* the entries of the three fields, a value that is no list being one entry
CodemetaEntries ==
    UNION {FieldEntries(pFile.data, f) : f \in CodemetaFieldNames}

\* C15: schema B returns the union over author, contributor and
\* maintainer, a field holding one record or a list; a record resolves to
\* its name if present and non-empty, else to givenName + ' ' + familyName
\* trimmed; a bare string is used as it is; an email is appended as
\* ' <email>'.
C15_CodemetaEntriesToIdentities ==
    CodemetaParsed =>
        /\ ~pOut.warned
        /\ \A a \in CodemetaEntries :
               /\ a.t = "str" => a.v \in pOut.result
               /\ a.t = "dict" => CodemetaIdentity(a) \subseteq pOut.result
        /\ \A id \in pOut.result :
               \E a \in CodemetaEntries :
                   \/ a.t = "str" /\ id = a.v
                   \/ a.t = "dict" /\ id \in CodemetaIdentity(a)

\* C15 witness: author is a single record with only a givenName, and
\* contributor is a list of a string and a record; the result is their union
C15_Witness ==
    /\ CodemetaParsed
    /\ DOMAIN pFile.data = {"t", "author", "contributor", "maintainer"}
    /\ pFile.data.author = V_Dict(V_Str(S_Al), V_NoKey, V_NoKey, V_NoKey)
    /\ pFile.data.contributor =
           V_List(<<V_Str(S_Bo), V_Dict(V_Str(S_Al), V_Str(S_Bo), V_NoKey, V_NoKey)>>)
    /\ pOut.result = {S_Al, S_Bo, S_Al \o <<" ">> \o S_Bo}

(***************************************************************************)
(* Claims on the comment body (SpecComment)                                *)
(***************************************************************************)
\* the lines of a text: what stands between its newlines
TextLines(body) == FieldsBy(body, "\n")

\* line is the bullet of the identity id
IsBullet(line, id) == line = <<"-", " ">> \o id

\* the body has the fixed lines around n bullet lines (one empty line in
\* their place when n = 0), for the platform word given
FixedLinesAround(lines, n, platform) ==
    LET m == IF n = 0 THEN 1 ELSE n
    IN  /\ Len(lines) = m + 8
        /\ lines[1] = SubSeq(BodyTitle, 1, Len(BodyTitle) - 2)
        /\ lines[2] = << >>
        /\ lines[3] = BodyBeforePlatform \o platform
                          \o SubSeq(BodyAfterPlatform, 1, Len(BodyAfterPlatform) - 2)
        /\ lines[4] = << >>
        /\ lines[m + 5] = << >>
        /\ lines[m + 6] \o <<"\n">> \o lines[m + 7] \o <<"\n">> = BodyNextSteps
        /\ lines[m + 8] = << >>

\* lines 5 .. 4 + n are the bullets of the identities of S, each once, in
\* ascending order
BulletsSortedOnce(lines, S) ==
    LET n == Cardinality(S)
    IN  /\ \A id \in S :
               Cardinality({k \in 1..n : IsBullet(lines[4 + k], id)}) = 1
        /\ \A k \in 1..n : \E id \in S : IsBullet(lines[4 + k], id)
        /\ \A j, k \in 1..n :
               j < k => StrLess(SubSeq(lines[4 + j], 3, Len(lines[4 + j])),
                                SubSeq(lines[4 + k], 3, Len(lines[4 + k])))

\* C16: for every set of missing identities the body is the header, then
\* one bullet '- identity' per missing identity, each exactly once and in
\* ascending sorted order, then the fixed remediation text; the GitHub and
\* the GitLab body of the same set differ only in the word 'PR' / 'MR'.
C16_BodyListsMissingSortedOnce ==
    /\ "PR" \in bOp =>
          /\ FixedLinesAround(TextLines(bPR), Cardinality(bMissing), PLATFORM_PR)
          /\ BulletsSortedOnce(TextLines(bPR), bMissing)
    /\ "MR" \in bOp =>
          /\ FixedLinesAround(TextLines(bMR), Cardinality(bMissing), PLATFORM_MR)
          /\ BulletsSortedOnce(TextLines(bMR), bMissing)
    /\ bOp = {"PR", "MR"} =>
          /\ Len(bPR) = Len(bMR)
          /\ \E i \in 1..Len(bPR) :
                 /\ bPR[i] = "P" /\ bMR[i] = "M" /\ bPR[i + 1] = "R"
                 /\ \A j \in 1..Len(bPR) : j # i => bPR[j] = bMR[j]

\* C16 witness: both bodies were rendered for three identities whose
\* code-point order differs from their order ignoring case
C16_Witness ==
    /\ bOp = {"PR", "MR"}
    /\ bMissing = {S_al, S_Bo, S_AL}
    /\ LET lines == TextLines(bPR)
       IN  /\ IsBullet(lines[5], S_AL)
           /\ IsBullet(lines[6], S_Bo)
           /\ IsBullet(lines[7], S_al)

(***************************************************************************)
(* Claims on the branches of the entry points (Spec)                       *)
(***************************************************************************)
\* cli.main has parsed its arguments (no usage error) in this run
CliParsed == pc # "start" /\ entry = "cli" /\ ~(pc = "exited" /\ exitCode = 2)

Supplied(sha) == ~Falsy(sha)

\* C17: cli.main returns 1 and runs no contributor check when exactly one of
\* --from-sha / --to-sha is supplied; with both it runs the range check on
\* those two bounds; with neither it runs the all-history check.
C17_CliBranchOnShas ==
    CliParsed =>
        /\ (Supplied(run.base) /\ ~Supplied(run.head))
              \/ (~Supplied(run.base) /\ Supplied(run.head))
              => /\ ~HasResults
                 /\ raised = "none"
                 /\ pc = "exited" => exitCode = 1
        /\ (HasResults /\ Supplied(run.base) /\ Supplied(run.head))
              => /\ results.context_name = "specified range"
                 /\ gitLog.status = "ok" =>
                        results.contributors
                            = {l \in MainLogTrimmed : l # << >> /\ Retained(effConfig, l)}
        /\ (HasResults /\ ~Supplied(run.base) /\ ~Supplied(run.head))
              => results.context_name = "repository history"
        /\ (pc = "exited" /\ raised = "none"
                /\ (Supplied(run.base) <=> Supplied(run.head))) => HasResults

\* C17 witness: only --from-sha was given, the run ended with 1 and without
\* results although the log holds a contributor
C17_Witness ==
    /\ CliParsed
    /\ Supplied(run.base) /\ ~Supplied(run.head)
    /\ pc = "exited" /\ exitCode = 1
    /\ ~HasResults
    /\ gitLog.status = "ok" /\ MainLogTrimmed # {}

\* the run is one of a CI wrapper, after construction
CiRun == pc # "start" /\ entry \in {"github", "gitlab"}

\* C19: a wrapper calls the posting function at most once per run and never
\* again after a failure; it calls it iff the run is in PR/MR mode and
\* missing_overall is non-empty, in mode 'warn' as in mode 'fail'; only
\* after the reconciliation, and never in all-history mode.
C19_CommentAttemptedAtMostOnce ==
    /\ pc # "idle" => Len(post) <= 1
    /\ Len(post) = 1 =>
          /\ CiRun /\ pr_mode(run)
          /\ HasResults
          /\ results.missing_overall # {}
          /\ post[1].missing = results.missing_overall
    /\ (CiRun /\ pc \in {"checked", "failed", "exited"} /\ HasResults
            /\ pr_mode(run) /\ results.missing_overall # {}) => Len(post) = 1
    /\ (CiRun /\ ~pr_mode(run)) => Len(post) = 0

\* C19 witness: a GitHub run in 'fail' mode ended after one posting call
\* that failed on an error status
C19_Witness ==
    /\ CiRun /\ entry = "github"
    /\ pc = "exited" /\ exitCode = 1
    /\ effConfig.mode = FAIL
    /\ Len(post) = 1
    /\ post[1].net = "http_error" /\ post[1].sent /\ ~post[1].posted

(***************************************************************************)
(* Claim on the standalone script (SpecScript)                             *)
(***************************************************************************)
\* C18: in PR mode and in test mode the script exits with 0 when nobody is
\* missing or when somebody is missing and the mode is 'warn', and with 1
\* only when somebody is missing and the mode is 'fail', or on an error
\* that was not handled.
C18_ScriptExitCodeContract ==
    (pc = "exited" /\ entry = "script") =>
        /\ (raised = "none" /\ results.missing = {}) => exitCode = 0
        /\ (raised = "none" /\ results.missing # {} /\ results.mode = WARN)
              => exitCode = 0
        /\ exitCode = 1 =>
              \/ raised # "none"
              \/ results.missing # {} /\ results.mode = FAIL

(***************************************************************************)
(* Claim on absent overrides in the three entry points (SpecConfig)        *)
(***************************************************************************)
\* C20: in the GitHub, GitLab and CLI entry points an ignore list with no
\* runtime override (variable unset, flag not given) is the one of the layer
\* below: the value of the config file when the file sets it, the built-in
\* default list otherwise, and never an empty list in place of the default.
C20_AbsentOverrideKeepsLowerLayer ==
    /\ kOp = "github" =>
          /\ kIn.env.ACTION_IGNORE_EMAILS = None =>
                kOut.ignore_emails
                    = FromFileOrDefault(kIn.file, "ignore_emails", <<DEPENDABOT_EMAIL>>)
          /\ kIn.env.ACTION_IGNORE_LOGINS = None =>
                kOut.ignore_logins
                    = FromFileOrDefault(kIn.file, "ignore_logins", <<DEPENDABOT_LOGIN>>)
    /\ kOp = "gitlab" =>
          /\ kIn.env.IGNORE_EMAILS = None =>
                kOut.ignore_emails = GitlabDefault.ignore_emails
          /\ kIn.env.IGNORE_LOGINS = None =>
                kOut.ignore_logins = GitlabDefault.ignore_logins
    /\ kOp = "cli" =>
          /\ kIn.args.ignore_emails = NoList =>
                kOut.ignore_emails = <<DEPENDABOT_EMAIL>>
          /\ kIn.args.ignore_logins = NoList =>
                kOut.ignore_logins = <<DEPENDABOT_LOGIN>>

\* the same statement for the two CI loaders only
CiLoadersKeepLowerLayer ==
    kOp \in {"github", "gitlab"} => C20_AbsentOverrideKeepsLowerLayer

(***************************************************************************)
(* Claim on records without a resolvable name (SpecParse)                  *)
(***************************************************************************)
\* the value is absent, null or the empty string
EmptyOrNull(v) == v.t \in {"nokey", "none"} \/ v = V_Str(<< >>)

\* schema A: a record with neither the paired names nor a name
UnresolvableA(a) ==
    a.t = "dict" /\ ~(HasKey(a.given) /\ HasKey(a.family)) /\ EmptyOrNull(a.name)

\* schema B: a record with no name and an empty or null givenName and
\* familyName
UnresolvableB(a) ==
    a.t = "dict" /\ EmptyOrNull(a.name) /\ EmptyOrNull(a.given) /\ EmptyOrNull(a.family)

\* schema B: an entry with a name, or whose givenName and familyName are
\* strings or absent, and an entry that is no record
ResolvableB(a) ==
    a.t = "dict" =>
        \/ Truthy(a.name)
        \/ a.given.t \in {"nokey", "str"} /\ a.family.t \in {"nokey", "str"}

\* the identities of the entries left when the unresolvable ones are dropped
IdentitiesOfOthers(entries, unresolvable(_), identity(_)) ==
    UNION {IF e.t = "str" THEN {e.v}
           ELSE IF e.t = "dict" /\ ~unresolvable(e) THEN identity(e)
           ELSE {} : e \in entries}

\* C21: in both extractors a record from which no name can be resolved
\* contributes nothing and the other records of the file are extracted all
\* the same: the result is the set of identities of the other records.
C21_UnresolvableRecordSkippedAlone ==
    /\ CitationListParsed =>
          pOut.result = IdentitiesOfOthers(Elements(pFile.data.authors.v),
                                           UnresolvableA, CitationIdentity)
    /\ (/\ ParsedAs("codemeta") /\ pFile.data.t = "dict"
        /\ \A e \in CodemetaEntries : UnresolvableB(e) \/ ResolvableB(e))
          => pOut.result = IdentitiesOfOthers(CodemetaEntries, UnresolvableB,
                                              CodemetaIdentity)

\* the statement for schema A alone
UnresolvableCitationRecordSkippedAlone ==
    CitationListParsed =>
        pOut.result = IdentitiesOfOthers(Elements(pFile.data.authors.v),
                                         UnresolvableA, CitationIdentity)

(***************************************************************************)
(* Claims on the checks of core.py called directly (SpecCore)              *)
(***************************************************************************)
\* the call of the caller has ended, by a return or by an exception
CoreCalled(op) == pc \in {"checked", "failed"} /\ run.op = op

\* every name the two metadata files declare is a string
DeclaredAreStrings ==
    \A x \in parse_citation_cff(citFile).result
               \cup parse_codemeta_json(cmFile).result : IsStr(x)

\* C22: with base_sha or head_sha absent or empty the range collector gives
\* the empty set and does not run the log query (a git that cannot be
\* started raises nothing); the check that follows has empty missing sets
\* and succeeds in 'warn' and in 'fail' mode, for metadata files whose
\* declared names are strings.
C22_RangeWithoutBoundsIsEmptyAndPasses ==
    (CoreCalled("range") /\ (Falsy(run.base) \/ Falsy(run.head))) =>
        /\ raised # "OSError"
        /\ DeclaredAreStrings =>
              /\ pc = "checked" /\ raised = "none"
              /\ results.contributors = {}
              /\ results.missing_citation = {}
              /\ results.missing_codemeta = {}
              /\ results.missing_overall = {}
              /\ success = TRUE

\* C22 witness: the base is absent, the mode is 'fail', the log holds a
\* contributor no file declares, and the check passed
C22_Witness ==
    /\ CoreCalled("range") /\ run.base = None /\ run.head = SHA2
    /\ effConfig.mode = FAIL
    /\ gitLog.status = "ok" /\ gitLog.stdout # << >>
    /\ NoMetadata
    /\ success = TRUE /\ results.contributors = {}

\* C23: a log query that exits non-zero raises nothing: the collector gives
\* the empty set, the check reports no contributor and an empty
\* missing_overall, and success is true in 'warn' and in 'fail' mode, for
\* metadata files whose declared names are strings.
C23_FailedLogQueryPasses ==
    (pc \in {"checked", "failed"} /\ gitLog.status = "nonzero") =>
        /\ raised # "OSError"
        /\ DeclaredAreStrings =>
              /\ pc = "checked" /\ raised = "none"
              /\ results.contributors = {}
              /\ results.missing_overall = {}
              /\ success = TRUE

\* C23 witness: git log --all exited non-zero in 'fail' mode, no metadata
\* file exists, and the check passed
C23_Witness ==
    /\ CoreCalled("all") /\ gitLog.status = "nonzero"
    /\ effConfig.mode = FAIL
    /\ NoMetadata
    /\ pc = "checked" /\ success = TRUE /\ results.contributors = {}

\* C28: in the results missing_overall is missing_citation intersected with
\* missing_codemeta, each missing set is a subset of the contributors, and
\* metadata_combined is the union of the two declared sets.
C28_ResultsSetsAgree ==
    HasResults =>
        /\ results.missing_overall
               = results.missing_citation \cap results.missing_codemeta
        /\ results.missing_citation \subseteq results.contributors
        /\ results.missing_codemeta \subseteq results.contributors
        /\ results.missing_overall \subseteq results.contributors
        /\ results.metadata_combined = results.citation_cff \cup results.codemeta_json

\* C28 witness: the two files declare different persons, one contributor
\* is missing from both files and another one from codemeta.json only
C28_Witness ==
    /\ HasResults
    /\ results.citation_cff # {} /\ results.codemeta_json # {}
    /\ results.citation_cff # results.codemeta_json
    /\ results.missing_overall # {}
    /\ results.missing_overall # results.missing_codemeta

\* the declared sets are the ones the extractors give for the two files,
\* whatever the configuration
DeclaredAsExtracted ==
    /\ results.citation_cff = parse_citation_cff(citFile).result
    /\ results.codemeta_json = parse_codemeta_json(cmFile).result

\* the identity passes the filter: its bracketed email is not ignored, no
\* ignored login occurs in it, and it does not contain 'bot'
PassesFilter(config, id) == id # << >> /\ Retained(config, id)

\* C29: the filter policy touches the collected contributors only: the
\* declared sets do not depend on ignore_emails / ignore_logins (a declared
\* 'Bot' or ignored email stays), and every identity in a missing set of a
\* range or all-history check passes should_include_contributor under the
\* effective policy.
C29_FilterOnlyOnCollected ==
    HasResults =>
        /\ DeclaredAsExtracted
        /\ \A id \in results.contributors \cup results.missing_citation
                    \cup results.missing_codemeta \cup results.missing_overall :
               /\ PassesFilter(effConfig, id)
               /\ should_include_contributor(effConfig, id)

\* C29 witness: codemeta.json declares 'Bot', which stays declared under a
\* policy with ignore lists; the log holds 'Bot <c@x>', which is not
\* collected, and a contributor who is missing from CITATION.cff
C29_Witness ==
    /\ HasResults
    /\ S_Bot \in results.codemeta_json
    /\ effConfig.ignore_emails = <<S_CMail>>
    /\ gitLog.status = "ok" /\ Contains(gitLog.stdout, S_Bot)
    /\ results.missing_citation # {}

(***************************************************************************)
(* Claims on the mode selection and the exit of the entry points (Spec)    *)
(***************************************************************************)
\* the three variables of the run (PR_BASE_SHA, PR_HEAD_SHA, PR_NUMBER for
\* GitHub; CI_MERGE_REQUEST_TARGET_BRANCH_SHA, CI_COMMIT_SHA,
\* CI_MERGE_REQUEST_IID for GitLab) are all non-empty
AllThreeSet == Supplied(run.base) /\ Supplied(run.head) /\ Supplied(run.number)

\* C24: github.main runs the PR check iff the three variables of the pull
\* request are all non-empty, gitlab.main the MR check iff its three are;
\* otherwise the all-history check runs; each run makes exactly one check.
C24_ModeSelection ==
    CiRun =>
        /\ HasResults =>
              /\ AllThreeSet =>
                    results.context_name = (IF entry = "github" THEN "PR commits"
                                                               ELSE "MR commits")
              /\ ~AllThreeSet => results.context_name = "repository history"
        /\ (pc \in {"posting", "checked"}
                \/ (pc \in {"failed", "exited"}
                        /\ raised \notin {"OSError", "TypeError"})) => HasResults
        /\ Len(post) > 0 => AllThreeSet

\* C24 witness: a GitLab run with the two SHAs but no request number made
\* the all-history check and ended
C24_Witness ==
    /\ CiRun /\ entry = "gitlab"
    /\ Supplied(run.base) /\ Supplied(run.head) /\ ~Supplied(run.number)
    /\ pc = "exited"
    /\ HasResults /\ results.context_name = "repository history"
    /\ results.contributors # {}

(***************************************************************************)
(* Claims on the GitLab configuration and on the mode (SpecConfig)         *)
(***************************************************************************)
\* MODE trimmed and lowercased, '' when it is unset
ModeWord(v) == IF v = None THEN << >> ELSE Lower(Trimmed(v))

\* C25: GitLab takes MODE only if, trimmed and lowercased, it is 'warn' or
\* 'fail', else the mode stays 'warn'; a non-blank IGNORE_EMAILS /
\* IGNORE_LOGINS replaces the default list by its comma-separated entries,
\* trimmed and without the empty ones; blank or unset keeps the defaults,
\* which hold 'noreply@gitlab.com' and 'gitlab-bot'.
C25_GitlabConfigFromEnvironment ==
    kOp = "gitlab" =>
        LET env == kIn.env
        IN  /\ kOut.mode = IF ModeWord(env.MODE) \in {WARN, FAIL}
                           THEN ModeWord(env.MODE) ELSE WARN
            /\ kOut.ignore_emails =
                   IF IsSetList(env.IGNORE_EMAILS) THEN ListEntries(env.IGNORE_EMAILS)
                   ELSE <<DEPENDABOT_EMAIL, GITLAB_NOREPLY>>
            /\ kOut.ignore_logins =
                   IF IsSetList(env.IGNORE_LOGINS) THEN ListEntries(env.IGNORE_LOGINS)
                   ELSE <<DEPENDABOT_LOGIN, GITLAB_BOT>>

\* C25 witness: MODE is 'Fail' after a tab and before a newline,
\* IGNORE_EMAILS is 'c@x, ,d@x' and IGNORE_LOGINS is blank: mode 'fail', two
\* emails, the default logins
C25_Witness ==
    /\ kOp = "gitlab"
    /\ kIn.env.MODE = <<"\t", "F", "a", "i", "l", "\n">>
    /\ kIn.env.IGNORE_EMAILS = <<"c", "@", "x", ",", " ", ",", "d", "@", "x">>
    /\ kIn.env.IGNORE_LOGINS = <<" ">>
    /\ kOut = [mode |-> FAIL, ignore_emails |-> <<S_CMail, <<"d", "@", "x">>>>,
               ignore_logins |-> <<DEPENDABOT_LOGIN, GITLAB_BOT>>]

(***************************************************************************)
(* Claim on termination and exit codes (SpecLive)                          *)
(***************************************************************************)
\* C26 (as stated): every invocation of cli, github or gitlab terminates,
\* with exit code 0 or 1 and no other value.
C26_TerminatesWithZeroOrOne ==
    /\ <>(pc = "exited")
    /\ [](pc = "exited" => exitCode \in {0, 1})

\* C26 (amended): every invocation terminates; github and gitlab end with 0
\* or 1; cli ends with 0 or 1 once its arguments are parsed, and with 2 when
\* argparse rejects them, which happens in the first step, before a checker
\* exists and before any check has run.
C26_TerminatesWithZeroOneOrUsage ==
    /\ <>(pc = "exited")
    /\ [][pc' # pc]_vars
    /\ [](pc = "exited" =>
            /\ exitCode \in {0, 1, 2}
            /\ exitCode = 2 =>
                  entry = "cli" /\ ~HasResults /\ raised = "none" /\ Len(post) = 0)
    /\ [][(pc' = "exited" /\ exitCode' = 2) => pc = "start"]_vars

\* C26 witness: a GitHub run without git, metadata or credentials has ended
\* with 1
C26_Witness ==
    /\ pc = "exited" /\ entry = "github"
    /\ gitLog.status = "oserror"
    /\ NoMetadata
    /\ run.token = None
    /\ exitCode = 1

(***************************************************************************)
(* Claim on the mode handed to the core check (Spec)                       *)
(***************************************************************************)
\* the entry point has built its configuration
Configured == pc # "start" /\ ~(pc = "exited" /\ exitCode = 2)

\* C27: the mode of the effective configuration is exactly 'warn' or
\* 'fail' in every entry point and for every input, so a request for fail
\* mode in any form the loader takes (another letter case in ACTION_MODE)
\* makes missing contributors fail the check.
C27_ModeIsWarnOrFail ==
    Configured =>
        /\ effConfig.mode \in {WARN, FAIL}
        /\ (HasResults /\ results.missing_overall # {}
                /\ ModeWord(effConfig.mode) = FAIL) => success = FALSE

\* the statement for cli.main and gitlab.main alone
ModeIsWarnOrFailOutsideGithub ==
    (Configured /\ entry # "github") => C27_ModeIsWarnOrFail

=========================================================================
